---- MODULE Spec2Model ----
(***************************************************************************)
(* Guard-node ranking pipeline: the FastAPI backend (backend/main.py) and  *)
(* the offline scripts (scripts/prepare_features.py, train_xgboost.py,     *)
(* predict_guard.py).                                                      *)
(*                                                                         *)
(* Number conventions.  Bandwidths are integers in tenths of MB/s, setup   *)
(* times in tenths of a second, total_bytes in units of 10^4 bytes.  A     *)
(* quotient is an exact reduced fraction <<num, den>>; floating-point      *)
(* rounding is not modelled.  Probabilities are integers (levels); a row   *)
(* is not assumed to sum to anything.  Python None is the empty tuple and  *)
(* a set value v is <<v>>; for an Optional[str] request field None is ""   *)
(* (both are falsy, and the code only tests the field's truth).            *)
(***************************************************************************)
EXTENDS Integers, Sequences, FiniteSets, TLC

VARIABLES
    disk,               \* the artifact files the backend reads at startup
    startup,            \* position of the startup handler load_model
    model,              \* main.py global
    encoders,           \* main.py global
    feature_columns,    \* main.py global
    guard_fingerprints, \* main.py global
    guard_meta,         \* main.py global
    resp,               \* outcome of the latest call of predict_guard_nodes
    corpus,             \* the raw dataset prepare_features.py reads
    engineered,         \* what prepare_features.py wrote: frame and encoders
    batch,              \* outcome of the latest call of predict_top_k_guards
    served,             \* outcome of a call of the backend engineer_features
    rank_in,            \* a probability row and a cutoff k to rank with
    ranked,             \* outcome of get_top_k_predictions on rank_in
    mrr,                \* outcome of calculate_mrr on rank_in
    le,                 \* one LabelEncoder: its input, classes and lookups
    eval_set,           \* a labeled evaluation set: y_true, y_pred_proba, k
    topk_acc,           \* outcome of evaluate_topk on eval_set
    split,              \* train_xgboost.py: the train / val / test partition
    pipeline            \* prepare_features.py and train_xgboost.py: the files
                        \* written and how far each script got

service_vars == <<disk, startup, model, encoders, feature_columns,
                  guard_fingerprints, guard_meta, resp>>

train_vars == <<eval_set, topk_acc, split, pipeline>>

offline_vars == <<corpus, engineered, batch, served, rank_in, ranked, mrr, le,
                  train_vars>>

vars == <<service_vars, offline_vars>>

\* ------------------------------------------------------------------ bounds

\* Probability levels a model row may hold are 0..MaxProb.
MaxProb == 1

\* Probability levels of the rows the ranking is checked on are 0..MaxRankProb.
MaxRankProb == 2

\* The cutoffs k the ranking is checked with are -1..MaxK.
MaxK == 4

\* An encoder is fit on 1..MaxFitLen values.
MaxFitLen == 3

\* A labeled evaluation set holds 1..MaxExamples examples.
MaxExamples == 2

\* ------------------------------------------------------------ basic values

None == <<>>

Some(v) == <<v>>

Range(s) == {s[i] : i \in DOMAIN s}

RECURSIVE Gcd(_, _)
Gcd(a, b) == IF b = 0 THEN a ELSE Gcd(b, a % b)

\* The quotient n / d (d > 0, n >= 0) as a reduced fraction.
Frac(n, d) == LET g == Gcd(n, d) IN <<n \div g, d \div g>>

Min3(a, b, c) == IF a <= b /\ a <= c THEN a ELSE IF b <= c THEN b ELSE c

Max3(a, b, c) == IF a >= b /\ a >= c THEN a ELSE IF b >= c THEN b ELSE c

\* pandas' std(axis=1) of three values is the sample standard deviation
\* (ddof = 1): the square root of (3*sum(x^2) - sum(x)^2) / 6.  The value is
\* kept as that radicand.
SampleStd3(a, b, c) ==
    <<"sqrt", Frac(3 * (a * a + b * b + c * c) - (a + b + c) * (a + b + c), 6)>>

\* Python compares str values by code point.  The strings of the model:
CodePoints ==
    [s \in {"DE", "FR", "JP", "US", "Unknown", "UNKNOWN", "",
            "G1", "G2", "G3", "M1", "M2", "M9", "E1", "E2", "E9"} |->
        CASE s = "DE" -> <<68, 69>>
          [] s = "FR" -> <<70, 82>>
          [] s = "JP" -> <<74, 80>>
          [] s = "US" -> <<85, 83>>
          [] s = "Unknown" -> <<85, 110, 107, 110, 111, 119, 110>>
          [] s = "UNKNOWN" -> <<85, 78, 75, 78, 79, 87, 78>>
          [] s = "" -> <<>>
          [] s = "G1" -> <<71, 49>>
          [] s = "G2" -> <<71, 50>>
          [] s = "G3" -> <<71, 51>>
          [] s = "M1" -> <<77, 49>>
          [] s = "M2" -> <<77, 50>>
          [] s = "M9" -> <<77, 57>>
          [] s = "E1" -> <<69, 49>>
          [] s = "E2" -> <<69, 50>>
          [] s = "E9" -> <<69, 57>>]

RECURSIVE LexLess(_, _)
LexLess(s, t) ==
    IF s = <<>> THEN t # <<>>
    ELSE IF t = <<>> THEN FALSE
    ELSE IF s[1] # t[1] THEN s[1] < t[1]
    ELSE LexLess(Tail(s), Tail(t))

StrLess(a, b) == LexLess(CodePoints[a], CodePoints[b])

\* ------------------------------------------------- sklearn LabelEncoder

RECURSIVE SortStr(_)
SortStr(S) ==
    IF S = {} THEN <<>>
    ELSE LET m == CHOOSE x \in S : \A y \in S \ {x} : StrLess(x, y)
         IN <<m>> \o SortStr(S \ {m})

\* A fit that numbers the values in the order of their first occurrence.
LabelEncoderFitFirstSeen(values) ==
    LET firsts == {i \in DOMAIN values :
                      \A j \in 1 .. (i - 1) : values[j] # values[i]}
    IN [n \in 1 .. Cardinality(firsts) |->
          values[CHOOSE i \in firsts :
                     Cardinality({j \in firsts : j < i}) = n - 1]]

\* LabelEncoder.fit: classes_ = np.unique(y), the sorted distinct values.
LabelEncoderFit(values) == SortStr(Range(values))

\* A transform that searches from the right (np.searchsorted side='right').
LabelEncoderTransformRight(classes, v) ==
    [raised |-> v \notin Range(classes),
     value  |-> Cardinality({i \in DOMAIN classes :
                                StrLess(classes[i], v) \/ classes[i] = v})]

\* LabelEncoder.transform of one value: ValueError for a value that is not in
\* classes_, else its position in classes_ (np.searchsorted).
LabelEncoderTransform(classes, v) ==
    [raised |-> v \notin Range(classes),
     value  |-> Cardinality({i \in DOMAIN classes : StrLess(classes[i], v)})]

\* LabelEncoder.inverse_transform of one index: ValueError outside 0..N-1.
LabelEncoderInverse(classes, idx) ==
    [raised |-> idx \notin 0 .. (Len(classes) - 1),
     value  |-> IF idx \in 0 .. (Len(classes) - 1) THEN classes[idx + 1] ELSE ""]

\* ------------------------------------------------ the training corpus

\* generate_simulated_data.py save_data: the header of the raw CSV.
RawCsvColumns ==
    <<"request_id", "circuit_id", "timestamp", "status",
      "guard_fingerprint", "guard_nickname", "guard_address", "guard_country",
      "middle_fingerprint", "middle_nickname", "middle_address", "middle_country",
      "exit_fingerprint", "exit_nickname", "exit_address", "exit_country",
      "build_time", "purpose",
      "guard_bandwidth", "middle_bandwidth", "exit_bandwidth",
      "circuit_setup_duration", "total_bytes">>

\* A corpus row holds the raw columns the pipeline reads.
Row(cid, g, gc, gbw, m, mc, mbw, e, ec, ebw, dur, bytes) ==
    [circuit_id |-> cid,
     guard_fingerprint |-> g, guard_country |-> gc, guard_bandwidth |-> gbw,
     middle_fingerprint |-> m, middle_country |-> mc, middle_bandwidth |-> mbw,
     exit_fingerprint |-> e, exit_country |-> ec, exit_bandwidth |-> ebw,
     circuit_setup_duration |-> dur, total_bytes |-> bytes]

\* Raw datasets (data/circuit_data_<timestamp>.csv) of the model.
CorpusA ==
    <<Row(1, "G2", "US", 85, "M1", "DE", 70, "E1", "FR", 65, 10, 50),
      Row(2, "G1", "DE", 60, "M2", "US", 70, "E2", "US", 40, 20, 80),
      Row(3, "G3", "FR", 85, "M1", "DE", 0, "E1", "FR", 65, 10, 50),
      Row(4, "G2", "US", 90, "M2", "US", 70, "E2", "US", 40, 15, 30)>>

CorpusB ==
    <<Row(1, "G1", "DE", 85, "M1", "DE", 70, "E1", "DE", 65, 10, 50),
      Row(2, "G2", "FR", 60, "M1", "FR", 70, "E1", "DE", 65, 20, 80)>>

\* A dataset with a single guard: prepare_features.py accepts it.
CorpusC ==
    <<Row(1, "G3", "FR", 85, "M2", "FR", 70, "E2", "JP", 65, 10, 50)>>

Corpora == {CorpusA, CorpusB, CorpusC}

Column(df, col) == [i \in DOMAIN df |-> df[i][col]]

\* prepare_features.py engineer_features, in the order it adds the columns.
EngineeredColumns ==
    <<"bw_ratio_guard_middle", "bw_ratio_guard_exit", "bw_ratio_middle_exit",
      "bw_total", "bw_min", "bw_max", "bw_std",
      "same_country_guard_middle", "same_country_guard_exit",
      "same_country_middle_exit", "all_same_country", "country_diversity",
      "guard_usage_freq", "middle_usage_freq", "exit_usage_freq",
      "guard_exit_pair_freq", "guard_avg_bandwidth", "guard_middle_pair_freq",
      "guard_prefers_exit_country",
      "middle_fingerprint_encoded", "exit_fingerprint_encoded",
      "guard_country_encoded", "middle_country_encoded", "exit_country_encoded",
      "guard_label",
      "bw_guard_x_setup", "bw_total_x_bytes">>

\* The header of data/circuit_data_engineered.csv written by prepare_features.
EngineeredCsvColumns == RawCsvColumns \o EngineeredColumns

\* The five encoded categorical columns.
EncodedCols ==
    <<"middle_fingerprint", "exit_fingerprint",
      "guard_country", "middle_country", "exit_country">>

\* prepare_features.py: one LabelEncoder per encoded column and one for the
\* target guard_fingerprint, each fit on the whole column.
FitEncoders(df) ==
    [col \in Range(EncodedCols) \cup {"guard_fingerprint"} |->
        LabelEncoderFit(Column(df, col))]

\* exclude_cols with the target column forgotten.
exclude_cols_without_target ==
    {"request_id", "circuit_id", "timestamp", "build_time", "status", "purpose",
     "guard_fingerprint", "guard_nickname", "guard_address", "guard_country",
     "middle_fingerprint", "middle_nickname", "middle_address", "middle_country",
     "exit_fingerprint", "exit_nickname", "exit_address", "exit_country"}

\* train_xgboost.py main: the columns that are not features.
exclude_cols ==
    {"request_id", "circuit_id", "timestamp", "build_time", "status", "purpose",
     "guard_fingerprint", "guard_nickname", "guard_address", "guard_country",
     "middle_fingerprint", "middle_nickname", "middle_address", "middle_country",
     "exit_fingerprint", "exit_nickname", "exit_address", "exit_country",
     "guard_label"}

\* The filter letting the guard's fingerprint column through.
IsFeatureColKeepingGuard(col) == col \notin (exclude_cols \ {"guard_fingerprint"})

IsFeatureCol(col) == col \notin exclude_cols

\* train_xgboost.py main: feature_cols, pickled to models/feature_columns.pkl.
TrainFeatureCols == SelectSeq(EngineeredCsvColumns, IsFeatureCol)

\* The importance table of a trained booster, get_score(importance_type =
\* 'weight'), by feature position i (key f"f{i-1}"); 0 stands for a key the
\* table does not hold.
ScoreTable(dataset) ==
    [i \in DOMAIN TrainFeatureCols |->
        IF dataset = CorpusB
        THEN (CASE i = 3 -> 40 [] i = 7 -> 12 [] i = 21 -> 40 [] i = 24 -> 30
                [] i = 25 -> 20 [] i = 30 -> 5 [] i = 31 -> 16 [] OTHER -> 0)
        ELSE (CASE i = 21 -> 7 [] OTHER -> 0)]

\* xgb.XGBClassifier() before load_model / fit.
UnfittedModel ==
    [fitted |-> FALSE, feature_names |-> <<>>, n_classes |-> 0, score |-> <<>>]

\* The classifier train_xgboost.py fits on a corpus and saves: it expects the
\* training feature list and has one class per distinct guard.
TrainedModel(dataset) ==
    [fitted |-> TRUE,
     feature_names |-> TrainFeatureCols,
     n_classes |-> Len(FitEncoders(dataset)["guard_fingerprint"]),
     score |-> ScoreTable(dataset)]

\* ------------------------------------------- backend/main.py: features

\* The denominator stabilizers of the bandwidth ratios, in 10^-6 MB/s.
BackendStabilizer == 1

\* a / (b + stabilizer) for bandwidths a, b in tenths of MB/s.
BwRatio(a, b, stabilizer) == Frac(a * 100000, b * 100000 + stabilizer)

BackendBwRatio(a, b) == BwRatio(a, b, BackendStabilizer)

\* Defaults standing in for the unknown guard and middle relay.
DefaultGuardBandwidth == 85

DefaultMiddleBandwidth == 70

DefaultExitBandwidth == 65

\* 1e7 bytes, in units of 10^4 bytes.
DefaultTotalBytes == 1000

BoolInt(b) == IF b THEN 1 ELSE 0

\* float('nan') in a cell that otherwise holds a whole number.
NaN == -2147483647

\* a * b in floating point: NaN when either factor is.
NanMul(a, b) == IF a = NaN \/ b = NaN THEN NaN ELSE a * b

\* The columns a request or a dataset of the model may leave without a value
\* (setup time, byte count) and the products computed from them.
NullableCols ==
    {"circuit_setup_duration", "total_bytes", "bw_guard_x_setup",
     "bw_total_x_bytes"}

\* pandas isnull() on one cell.
IsNull(col, v) == col \in NullableCols /\ v = NaN

\* pandas fillna(0) on one cell.
FillNa(col, v) == IF IsNull(col, v) THEN 0 ELSE v

\* BackendEncode without the check for unseen values: the position
\* np.searchsorted gives whatever the value.
BackendEncodeUnchecked(encs, col, v) ==
    IF encs = None THEN -1
    ELSE IF col \notin DOMAIN encs[1] THEN -1
    ELSE LabelEncoderTransform(encs[1][col], v).value

\* One of the five try/except blocks: the fitted index, or -1 when the lookup
\* raises (encoders unset, no encoder for the column, value unseen at fit).
BackendEncode(encs, col, v) ==
    IF encs = None THEN -1
    ELSE IF col \notin DOMAIN encs[1] THEN -1
    ELSE LET r == LabelEncoderTransform(encs[1][col], v)
         IN IF r.raised THEN -1 ELSE r.value

\* The columns of the one-row frame df, in the order engineer_features
\* creates them.
ServingColumns ==
    <<"guard_bandwidth", "middle_bandwidth", "exit_bandwidth",
      "circuit_setup_duration", "total_bytes",
      "bw_ratio_guard_middle", "bw_ratio_guard_exit", "bw_ratio_middle_exit",
      "bw_total", "bw_min", "bw_max", "bw_std",
      "same_country_guard_middle", "same_country_guard_exit",
      "same_country_middle_exit", "all_same_country", "country_diversity",
      "guard_usage_freq", "middle_usage_freq", "exit_usage_freq",
      "guard_exit_pair_freq", "guard_avg_bandwidth", "guard_middle_pair_freq",
      "guard_prefers_exit_country",
      "middle_fingerprint_encoded", "exit_fingerprint_encoded",
      "guard_country_encoded", "middle_country_encoded", "exit_country_encoded",
      "bw_guard_x_setup", "bw_total_x_bytes">>

\* The frame with a field whose encoder is missing encoded as class 0.
ServingFrameMissingEncoderAsZero(request) ==
    LET gbw == DefaultGuardBandwidth
        mbw == DefaultMiddleBandwidth
        ebw == IF request.bandwidth > 0 THEN request.bandwidth
               ELSE DefaultExitBandwidth
        dur == request.setup_time
        bytes == IF request.bandwidth > 0
                 THEN NanMul(request.bandwidth, request.setup_time)
                 ELSE DefaultTotalBytes
        guard_country == "US"
        middle_country == IF request.middle_country # ""
                          THEN request.middle_country ELSE "Unknown"
        exit_country == request.exit_country
        middle_fp == IF request.middle_fingerprint # ""
                     THEN request.middle_fingerprint ELSE "UNKNOWN"
        enc(col, v) == IF encoders = None THEN 0
                       ELSE IF col \notin DOMAIN encoders[1] THEN 0
                       ELSE BackendEncode(encoders, col, v)
    IN [guard_bandwidth |-> gbw,
        middle_bandwidth |-> mbw,
        exit_bandwidth |-> ebw,
        circuit_setup_duration |-> dur,
        total_bytes |-> bytes,
        bw_ratio_guard_middle |-> BackendBwRatio(gbw, mbw),
        bw_ratio_guard_exit |-> BackendBwRatio(gbw, ebw),
        bw_ratio_middle_exit |-> BackendBwRatio(mbw, ebw),
        bw_total |-> gbw + mbw + ebw,
        bw_min |-> Min3(gbw, mbw, ebw),
        bw_max |-> Max3(gbw, mbw, ebw),
        bw_std |-> SampleStd3(gbw, mbw, ebw),
        same_country_guard_middle |-> BoolInt(guard_country = middle_country),
        same_country_guard_exit |-> BoolInt(guard_country = exit_country),
        same_country_middle_exit |-> BoolInt(middle_country = exit_country),
        all_same_country |-> BoolInt(guard_country = middle_country
                                     /\ guard_country = exit_country),
        country_diversity |->
            Frac(Cardinality({guard_country, middle_country, exit_country}), 3),
        guard_usage_freq |-> <<1, 2>>,
        middle_usage_freq |-> <<1, 2>>,
        exit_usage_freq |-> <<1, 2>>,
        guard_exit_pair_freq |-> <<1, 10>>,
        guard_avg_bandwidth |-> gbw,
        guard_middle_pair_freq |-> <<1, 10>>,
        guard_prefers_exit_country |-> <<1, 2>>,
        middle_fingerprint_encoded |-> enc("middle_fingerprint", middle_fp),
        exit_fingerprint_encoded |->
            enc("exit_fingerprint", request.exit_fingerprint),
        guard_country_encoded |-> enc("guard_country", guard_country),
        middle_country_encoded |-> enc("middle_country", middle_country),
        exit_country_encoded |-> enc("exit_country", exit_country),
        bw_guard_x_setup |-> NanMul(gbw, dur),
        bw_total_x_bytes |-> NanMul(gbw + mbw + ebw, bytes)]

\* The frame df of engineer_features just before the column selection.
ServingFrame(request) ==
    LET gbw == DefaultGuardBandwidth
        mbw == DefaultMiddleBandwidth
        ebw == IF request.bandwidth > 0 THEN request.bandwidth
               ELSE DefaultExitBandwidth
        dur == request.setup_time
        bytes == IF request.bandwidth > 0
                 THEN NanMul(request.bandwidth, request.setup_time)
                 ELSE DefaultTotalBytes
        guard_country == "US"
        middle_country == IF request.middle_country # ""
                          THEN request.middle_country ELSE "Unknown"
        exit_country == request.exit_country
        middle_fp == IF request.middle_fingerprint # ""
                     THEN request.middle_fingerprint ELSE "UNKNOWN"
    IN [guard_bandwidth |-> gbw,
        middle_bandwidth |-> mbw,
        exit_bandwidth |-> ebw,
        circuit_setup_duration |-> dur,
        total_bytes |-> bytes,
        bw_ratio_guard_middle |-> BackendBwRatio(gbw, mbw),
        bw_ratio_guard_exit |-> BackendBwRatio(gbw, ebw),
        bw_ratio_middle_exit |-> BackendBwRatio(mbw, ebw),
        bw_total |-> gbw + mbw + ebw,
        bw_min |-> Min3(gbw, mbw, ebw),
        bw_max |-> Max3(gbw, mbw, ebw),
        bw_std |-> SampleStd3(gbw, mbw, ebw),
        same_country_guard_middle |-> BoolInt(guard_country = middle_country),
        same_country_guard_exit |-> BoolInt(guard_country = exit_country),
        same_country_middle_exit |-> BoolInt(middle_country = exit_country),
        all_same_country |-> BoolInt(guard_country = middle_country
                                     /\ guard_country = exit_country),
        country_diversity |->
            Frac(Cardinality({guard_country, middle_country, exit_country}), 3),
        guard_usage_freq |-> <<1, 2>>,
        middle_usage_freq |-> <<1, 2>>,
        exit_usage_freq |-> <<1, 2>>,
        guard_exit_pair_freq |-> <<1, 10>>,
        guard_avg_bandwidth |-> gbw,
        guard_middle_pair_freq |-> <<1, 10>>,
        guard_prefers_exit_country |-> <<1, 2>>,
        middle_fingerprint_encoded |-> BackendEncode(encoders, "middle_fingerprint", middle_fp),
        exit_fingerprint_encoded |->
            BackendEncode(encoders, "exit_fingerprint", request.exit_fingerprint),
        guard_country_encoded |-> BackendEncode(encoders, "guard_country", guard_country),
        middle_country_encoded |-> BackendEncode(encoders, "middle_country", middle_country),
        exit_country_encoded |-> BackendEncode(encoders, "exit_country", exit_country),
        bw_guard_x_setup |-> NanMul(gbw, dur),
        bw_total_x_bytes |-> NanMul(gbw + mbw + ebw, bytes)]

\* A feature frame X: the sequence of <<column name, value>>.
Names(X) == [i \in DOMAIN X |-> X[i][1]]

XValue(X, col) == X[CHOOSE i \in DOMAIN X : X[i][1] = col][2]

\* engineer_features: X = df[feature_columns]; the selection raises (KeyError)
\* when feature_columns is unset or names a column df does not have.
engineer_features_cached(request) ==
    LET df == ServingFrame(request)
    IN IF feature_columns = None
       THEN [raised |-> TRUE, X |-> <<>>]
       ELSE IF \E i \in DOMAIN feature_columns[1] :
                   feature_columns[1][i] \notin DOMAIN df
       THEN [raised |-> TRUE, X |-> <<>>]
       ELSE [raised |-> FALSE,
             X |-> IF resp.ran_features THEN resp.X
                   ELSE [i \in DOMAIN feature_columns[1] |->
                           <<feature_columns[1][i], df[feature_columns[1][i]]>>]]

engineer_features(request) ==
    LET df == ServingFrame(request)
    IN IF feature_columns = None
       THEN [raised |-> TRUE, X |-> <<>>]
       ELSE IF \E i \in DOMAIN feature_columns[1] :
                   feature_columns[1][i] \notin DOMAIN df
       THEN [raised |-> TRUE, X |-> <<>>]
       ELSE [raised |-> FALSE,
             X |-> [i \in DOMAIN feature_columns[1] |->
                       <<feature_columns[1][i], df[feature_columns[1][i]]>>]]

\* --------------------------------------------------- ranking (top-K)

\* Probability rows over n classes; row[c + 1] is class c's probability.
ProbRows(n) == [1 .. n -> 0 .. MaxProb]

\* np.argsort(row) with the default kind ('quicksort', not stable): some
\* permutation of the class indices 0..N-1 along which the row is
\* non-decreasing.  The order among equal entries is the sort's choice.
ArgsortResults(row) ==
    {p \in [DOMAIN row -> 0 .. (Len(row) - 1)] :
        /\ \A i, j \in DOMAIN row : i # j => p[i] # p[j]
        /\ \A i \in DOMAIN row : i < Len(row) => row[p[i] + 1] <= row[p[i + 1] + 1]}

\* seq[::-1] forgotten.
NotReversed(seq) == seq

\* seq[::-1]
Reversed(seq) == [i \in DOMAIN seq |-> seq[Len(seq) + 1 - i]]

\* seq[:k - 1]: a slice that stops one short.
PrefixOneShort(seq, k) ==
    LET n == IF k - 1 >= 0 THEN (IF k - 1 < Len(seq) THEN k - 1 ELSE Len(seq))
             ELSE (IF Len(seq) + k - 1 > 0 THEN Len(seq) + k - 1 ELSE 0)
    IN SubSeq(seq, 1, n)

\* seq[:k], with Python's meaning of a negative k.
Prefix(seq, k) ==
    LET n == IF k >= 0 THEN (IF k < Len(seq) THEN k ELSE Len(seq))
             ELSE (IF Len(seq) + k > 0 THEN Len(seq) + k ELSE 0)
    IN SubSeq(seq, 1, n)

\* The first k of argsort's answer without the reversal.
TopKIndicesAscending(order, k) == Prefix(order, k)

\* np.argsort(row)[::-1][:k], for the permutation order argsort returned.
TopKIndices(order, k) == Prefix(Reversed(order), k)

\* get_top_k_predictions reading the confidence at the rank, not at the
\* class index.
get_top_k_predictions_by_position(row, k, order) ==
    LET top_k_indices == TopKIndices(order, k)
    IN IF guard_fingerprints = None
          \/ \E r \in DOMAIN top_k_indices :
                 top_k_indices[r] >= Len(guard_fingerprints[1])
       THEN [raised |-> TRUE, predictions |-> <<>>]
       ELSE [raised |-> FALSE,
             predictions |->
               [r \in DOMAIN top_k_indices |->
                 LET idx == top_k_indices[r]
                     guard_fp == guard_fingerprints[1][idx + 1]
                     known == guard_fp \in DOMAIN guard_meta
                 IN [guard_fingerprint |-> guard_fp,
                     guard_nickname |->
                        IF known /\ guard_meta[guard_fp].guard_nickname # <<>>
                        THEN guard_meta[guard_fp].guard_nickname
                        ELSE <<"GuardNode", idx>>,
                     guard_address |->
                        IF known /\ guard_meta[guard_fp].guard_address # <<>>
                        THEN guard_meta[guard_fp].guard_address
                        ELSE <<"Unknown">>,
                     guard_country |->
                        IF known /\ guard_meta[guard_fp].guard_country # <<>>
                        THEN guard_meta[guard_fp].guard_country
                        ELSE <<"Unknown">>,
                     confidence |-> row[r],
                     rank |-> r]]]

\* get_top_k_predictions: guard_fingerprints[idx] raises when the global is
\* unset (TypeError) or idx is past its end (IndexError).
get_top_k_predictions(row, k, order) ==
    LET top_k_indices == TopKIndices(order, k)
    IN IF guard_fingerprints = None
          \/ \E r \in DOMAIN top_k_indices :
                 top_k_indices[r] >= Len(guard_fingerprints[1])
       THEN [raised |-> TRUE, predictions |-> <<>>]
       ELSE [raised |-> FALSE,
             predictions |->
               [r \in DOMAIN top_k_indices |->
                 LET idx == top_k_indices[r]
                     guard_fp == guard_fingerprints[1][idx + 1]
                     known == guard_fp \in DOMAIN guard_meta
                 IN [guard_fingerprint |-> guard_fp,
                     guard_nickname |->
                        IF known /\ guard_meta[guard_fp].guard_nickname # <<>>
                        THEN guard_meta[guard_fp].guard_nickname
                        ELSE <<"GuardNode", idx>>,
                     guard_address |->
                        IF known /\ guard_meta[guard_fp].guard_address # <<>>
                        THEN guard_meta[guard_fp].guard_address
                        ELSE <<"Unknown">>,
                     guard_country |->
                        IF known /\ guard_meta[guard_fp].guard_country # <<>>
                        THEN guard_meta[guard_fp].guard_country
                        ELSE <<"Unknown">>,
                     confidence |-> row[idx + 1],
                     rank |-> r]]]

\* ------------------------------------------------------ explainability

\* list.sort(key = importance, reverse = True): stable, so equal importances
\* keep their order.
RECURSIVE SortByImportanceDesc(_)
SortByImportanceDesc(seq) ==
    IF seq = <<>> THEN <<>>
    ELSE LET i == CHOOSE a \in DOMAIN seq :
                     /\ \A b \in DOMAIN seq : seq[b].importance <= seq[a].importance
                     /\ \A b \in 1 .. (a - 1) : seq[b].importance < seq[a].importance
         IN <<seq[i]>> \o SortByImportanceDesc(
                SubSeq(seq, 1, i - 1) \o SubSeq(seq, i + 1, Len(seq)))

MaxImportance(seq) ==
    CHOOSE m \in {seq[i].importance : i \in DOMAIN seq} :
        \A i \in DOMAIN seq : seq[i].importance <= m

\* The buckets with their lower ends included.
ImpactInclusive(importance, max_importance) ==
    IF importance * 10 >= 7 * max_importance THEN "high"
    ELSE IF importance * 10 >= 4 * max_importance THEN "medium"
    ELSE "low"

\* "high" above 0.7, "medium" above 0.4, else "low", for importance / max.
Impact(importance, max_importance) ==
    IF importance * 10 > 7 * max_importance THEN "high"
    ELSE IF importance * 10 > 4 * max_importance THEN "medium"
    ELSE "low"

\* get_feature_importance keeping the features the table has no count for.
get_feature_importance_unfiltered(m, X, top_n) ==
    LET cols == feature_columns[1]
        every == [i \in DOMAIN cols |->
                    [feature |-> cols[i],
                     importance |-> IF i \in DOMAIN m.score
                                    THEN m.score[i] ELSE 0,
                     value |-> XValue(X, cols[i])]]
        top_features == Prefix(SortByImportanceDesc(every), top_n)
    IN [i \in DOMAIN top_features |->
          [feature |-> top_features[i].feature,
           importance |-> IF MaxImportance(top_features) = 0 THEN <<0, 1>>
                          ELSE Frac(top_features[i].importance,
                                    MaxImportance(top_features)),
           value |-> top_features[i].value,
           impact |-> Impact(top_features[i].importance,
                             MaxImportance(top_features))]]

\* get_feature_importance(model, X, top_n); the caller holds a fitted model.
get_feature_importance(m, X, top_n) ==
    LET cols == feature_columns[1]
        positive == SelectSeq([i \in DOMAIN cols |->
                                  [feature |-> cols[i],
                                   importance |-> IF i \in DOMAIN m.score
                                                  THEN m.score[i] ELSE 0,
                                   value |-> XValue(X, cols[i])]],
                              LAMBDA f : f.importance > 0)
        top_features == Prefix(SortByImportanceDesc(positive), top_n)
    IN [i \in DOMAIN top_features |->
          [feature |-> top_features[i].feature,
           importance |-> Frac(top_features[i].importance,
                               MaxImportance(top_features)),
           value |-> top_features[i].value,
           impact |-> Impact(top_features[i].importance,
                             MaxImportance(top_features))]]

\* ------------------------------------------------ backend/main.py: service

\* model.predict_proba(X) of the XGBoost classifier: raises for a classifier
\* that was never fitted or loaded and for a frame whose column names are
\* not the feature names the booster was trained with; otherwise it yields
\* the row the booster computes, one entry per class.
predict_proba(m, X, row) ==
    [raised |-> ~m.fitted \/ Names(X) # m.feature_names,
     probabilities |-> row]

\* The rows of data/circuit_data_engineered.csv the metadata loader reads
\* (the file has a header); <<>> is an empty cell.
MetaRows(dataset) ==
    [i \in DOMAIN dataset |->
        [guard_fingerprint |-> dataset[i].guard_fingerprint,
         guard_nickname |-> IF dataset[i].guard_fingerprint = "G1" THEN <<>>
                            ELSE <<"nick", dataset[i].guard_fingerprint>>,
         guard_address |-> <<"addr", dataset[i].guard_fingerprint>>,
         guard_country |-> <<dataset[i].guard_country>>]]

\* load_model lines 141-183: the csv.DictReader loop; a later row of one
\* guard replaces the earlier one, empty cells get placeholders.
LoadGuardMeta(rows) ==
    LET fps == {rows[i].guard_fingerprint : i \in DOMAIN rows}
        last(fp) == rows[CHOOSE i \in DOMAIN rows :
                            /\ rows[i].guard_fingerprint = fp
                            /\ \A j \in DOMAIN rows :
                                  rows[j].guard_fingerprint = fp => j <= i]
    IN [fp \in fps |->
          [guard_nickname |-> IF last(fp).guard_nickname # <<>>
                              THEN last(fp).guard_nickname ELSE <<"Guard_", fp>>,
           guard_address |-> IF last(fp).guard_address # <<>>
                             THEN last(fp).guard_address ELSE <<"Unknown">>,
           guard_country |-> IF last(fp).guard_country # <<>>
                             THEN last(fp).guard_country ELSE <<"Unknown">>]]

\* The startup handler refusing to start without the metadata file.
LoadModelRequiringMetadata ==
    /\ startup = "pending"
    /\ IF disk.model_file = None
       THEN /\ model' = Some(UnfittedModel)
            /\ startup' = "raised"
            /\ UNCHANGED <<encoders, feature_columns, guard_fingerprints, guard_meta>>
       ELSE IF disk.encoders_file = None
       THEN /\ model' = disk.model_file
            /\ startup' = "raised"
            /\ UNCHANGED <<encoders, feature_columns, guard_fingerprints, guard_meta>>
       ELSE IF disk.feature_cols_file = None \/ disk.metadata_csv = None
       THEN /\ model' = disk.model_file
            /\ encoders' = disk.encoders_file
            /\ startup' = "raised"
            /\ UNCHANGED <<feature_columns, guard_fingerprints, guard_meta>>
       ELSE /\ model' = disk.model_file
            /\ encoders' = disk.encoders_file
            /\ feature_columns' = disk.feature_cols_file
            /\ guard_fingerprints' = Some(disk.encoders_file[1]["guard_fingerprint"])
            /\ IF disk.metadata_csv = None
               THEN guard_meta' = guard_meta
               ELSE \E n \in 0 .. Len(disk.metadata_csv[1]) :
                       guard_meta' =
                           LoadGuardMeta(SubSeq(disk.metadata_csv[1], 1, n))
            /\ startup' = "done"
    /\ UNCHANGED <<disk, resp>>
    /\ UNCHANGED offline_vars

\* The startup handler.  Each global is assigned as soon as its file is read;
\* an exception leaves the globals assigned so far and is re-raised.  The
\* metadata file is read row by row inside its own try block: an error after
\* n rows leaves the entries of those rows and is only printed.
LoadModel ==
    /\ startup = "pending"
    /\ IF disk.model_file = None
       THEN /\ model' = Some(UnfittedModel)
            /\ startup' = "raised"
            /\ UNCHANGED <<encoders, feature_columns, guard_fingerprints, guard_meta>>
       ELSE IF disk.encoders_file = None
       THEN /\ model' = disk.model_file
            /\ startup' = "raised"
            /\ UNCHANGED <<encoders, feature_columns, guard_fingerprints, guard_meta>>
       ELSE IF disk.feature_cols_file = None
       THEN /\ model' = disk.model_file
            /\ encoders' = disk.encoders_file
            /\ startup' = "raised"
            /\ UNCHANGED <<feature_columns, guard_fingerprints, guard_meta>>
       ELSE /\ model' = disk.model_file
            /\ encoders' = disk.encoders_file
            /\ feature_columns' = disk.feature_cols_file
            /\ guard_fingerprints' = Some(disk.encoders_file[1]["guard_fingerprint"])
            /\ IF disk.metadata_csv = None
               THEN guard_meta' = guard_meta
               ELSE \E n \in 0 .. Len(disk.metadata_csv[1]) :
                       guard_meta' =
                           LoadGuardMeta(SubSeq(disk.metadata_csv[1], 1, n))
            /\ startup' = "done"
    /\ UNCHANGED <<disk, resp>>
    /\ UNCHANGED offline_vars

NoRequest ==
    [exit_fingerprint |-> "", exit_country |-> "", bandwidth |-> 0,
     setup_time |-> 0, middle_fingerprint |-> "", middle_country |-> ""]

NoResponse ==
    [called |-> FALSE, request |-> NoRequest, at_startup |-> "pending",
     status |-> 0, detail |-> "", ran_features |-> FALSE, X |-> <<>>,
     ran_model |-> FALSE, probabilities |-> <<>>, predictions |-> <<>>,
     top_features |-> <<>>, total_features |-> 0]

\* predict_guard_nodes answering 503 when the feature engineering fails.
predict_guard_nodes_unready_on_error(request, row, order) ==
    LET base == [NoResponse EXCEPT !.called = TRUE, !.request = request,
                                   !.at_startup = startup]
    IN IF model = None
       THEN [base EXCEPT !.status = 503, !.detail = "Model not loaded"]
       ELSE
         LET fe == engineer_features(request)
             ranFe == [base EXCEPT !.ran_features = TRUE, !.X = fe.X]
         IN IF fe.raised
            THEN [ranFe EXCEPT !.status = 503, !.detail = "Model not loaded"]
            ELSE
              LET proba == predict_proba(model[1], fe.X, row)
                  ranModel == [ranFe EXCEPT !.ran_model = TRUE]
              IN IF proba.raised
                 THEN [ranModel EXCEPT !.status = 500, !.detail = "Prediction error"]
                 ELSE
                   LET top == get_top_k_predictions(proba.probabilities, 10, order)
                   IN IF top.raised
                      THEN [ranModel EXCEPT !.status = 500,
                                            !.detail = "Prediction error",
                                            !.probabilities = proba.probabilities]
                      ELSE [ranModel EXCEPT
                              !.status = 200, !.detail = "OK",
                              !.probabilities = proba.probabilities,
                              !.predictions = top.predictions,
                              !.top_features =
                                  get_feature_importance(model[1], fe.X, 5),
                              !.total_features = Len(feature_columns[1])]

\* predict_guard_nodes: 503 when the model global is unset; any exception
\* past that check becomes 500.  row is what the booster computes for X and
\* order is np.argsort's answer for it.
predict_guard_nodes(request, row, order) ==
    LET base == [NoResponse EXCEPT !.called = TRUE, !.request = request,
                                   !.at_startup = startup]
    IN IF model = None
       THEN [base EXCEPT !.status = 503, !.detail = "Model not loaded"]
       ELSE
         LET fe == engineer_features(request)
             ranFe == [base EXCEPT !.ran_features = TRUE, !.X = fe.X]
         IN IF fe.raised
            THEN [ranFe EXCEPT !.status = 500, !.detail = "Prediction error"]
            ELSE
              LET proba == predict_proba(model[1], fe.X, row)
                  ranModel == [ranFe EXCEPT !.ran_model = TRUE]
              IN IF proba.raised
                 THEN [ranModel EXCEPT !.status = 500, !.detail = "Prediction error"]
                 ELSE
                   LET top == get_top_k_predictions(proba.probabilities, 10, order)
                   IN IF top.raised
                      THEN [ranModel EXCEPT !.status = 500,
                                            !.detail = "Prediction error",
                                            !.probabilities = proba.probabilities]
                      ELSE [ranModel EXCEPT
                              !.status = 200, !.detail = "OK",
                              !.probabilities = proba.probabilities,
                              !.predictions = top.predictions,
                              !.top_features =
                                  get_feature_importance(model[1], fe.X, 5),
                              !.total_features = Len(feature_columns[1])]

\* The requests of the model: seen and unseen relays and countries, with and
\* without the optional fields.
Requests ==
    {[exit_fingerprint |-> e[1], exit_country |-> c, bandwidth |-> e[2],
      setup_time |-> 20, middle_fingerprint |-> m[1], middle_country |-> m[2]] :
        e \in {<<"E1", 50>>, <<"E9", 0>>},
        c \in {"US", "JP"},
        m \in {<<"", "">>, <<"M1", "DE">>, <<"M9", "DE">>}}

NClasses == IF model = None THEN 0 ELSE model[1].n_classes

PredictLearningLabels ==
    /\ \E request \in Requests :
       \E row \in ProbRows(NClasses) :
       \E order \in ArgsortResults(row) :
          /\ resp' = predict_guard_nodes(request, row, order)
          /\ encoders' =
                IF encoders = None THEN None
                ELSE Some([encoders[1] EXCEPT !["exit_country"] =
                              LabelEncoderFit(@ \o <<request.exit_country>>)])
    /\ UNCHANGED <<disk, startup, model, feature_columns,
                   guard_fingerprints, guard_meta>>
    /\ UNCHANGED offline_vars

Predict ==
    /\ \E request \in Requests :
       \E row \in ProbRows(NClasses) :
       \E order \in ArgsortResults(row) :
          resp' = predict_guard_nodes(request, row, order)
    /\ UNCHANGED <<disk, startup, model, encoders, feature_columns,
                   guard_fingerprints, guard_meta>>
    /\ UNCHANGED offline_vars

\* Feature lists a models/feature_columns.pkl may hold besides the one the
\* training run of this repository writes: reordered, shortened, and with a
\* column the serving frame does not have.
SwappedFeatureCols ==
    [i \in DOMAIN TrainFeatureCols |->
        IF i = 1 THEN TrainFeatureCols[2]
        ELSE IF i = 2 THEN TrainFeatureCols[1] ELSE TrainFeatureCols[i]]

ShortFeatureCols == SubSeq(TrainFeatureCols, 1, Len(TrainFeatureCols) - 1)

ForeignFeatureCols == Append(TrainFeatureCols, "hour_of_day")

Disks ==
    [model_file : {None, Some(TrainedModel(CorpusB))},
     encoders_file : {None} \cup {Some(FitEncoders(c)) : c \in Corpora},
     feature_cols_file : {None, Some(TrainFeatureCols), Some(SwappedFeatureCols),
                          Some(ShortFeatureCols), Some(ForeignFeatureCols)},
     metadata_csv : {None, Some(MetaRows(CorpusA))}]


\* ------------------------------- scripts/prepare_features.py: training

TrainStabilizer == 1000000

TrainBwRatio(a, b) == BwRatio(a, b, TrainStabilizer)

RECURSIVE SumSeq(_)
SumSeq(seq) == IF seq = <<>> THEN 0 ELSE Head(seq) + SumSeq(Tail(seq))

\* df[[guard_country, middle_country, exit_country]].nunique(axis=1): the
\* count itself, kept as the fraction n / 1.
TrainCountryDiversity(gc, mc, ec) == Frac(Cardinality({gc, mc, ec}), 1)

RowsOfGuard(df, g) == SelectSeq(df, LAMBDA r : r.guard_fingerprint = g)

\* The exit countries a guard's rows name most often.  guard_top_country
\* takes the first row of each guard after sort_values('count') (quicksort,
\* not stable), so among equally frequent countries the choice is the sort's.
TopCountryChoices(df) ==
    LET guards == {df[i].guard_fingerprint : i \in DOMAIN df}
        count(g, c) == Len(SelectSeq(RowsOfGuard(df, g),
                                     LAMBDA r : r.exit_country = c))
        countries(g) == {df[i].exit_country : i \in
                            {j \in DOMAIN df : df[j].guard_fingerprint = g}}
    IN {f \in [guards -> {df[i].exit_country : i \in DOMAIN df}] :
           \A g \in guards :
               /\ f[g] \in countries(g)
               /\ \A c \in countries(g) : count(g, c) <= count(g, f[g])}

\* prepare_features.py engineer_features(df): the engineered frame and the
\* encoders.  Every aggregate is computed over the whole frame df.
prepare_engineer_features(df, guard_top_country) ==
    LET encs == FitEncoders(df)
        n(P(_)) == Len(SelectSeq(df, P))
        out(r) ==
          [circuit_id |-> r.circuit_id,
           guard_fingerprint |-> r.guard_fingerprint,
           guard_country |-> r.guard_country,
           middle_fingerprint |-> r.middle_fingerprint,
           middle_country |-> r.middle_country,
           exit_fingerprint |-> r.exit_fingerprint,
           exit_country |-> r.exit_country,
           guard_bandwidth |-> r.guard_bandwidth,
           middle_bandwidth |-> r.middle_bandwidth,
           exit_bandwidth |-> r.exit_bandwidth,
           circuit_setup_duration |-> r.circuit_setup_duration,
           total_bytes |-> r.total_bytes,
           bw_ratio_guard_middle |->
               TrainBwRatio(r.guard_bandwidth, r.middle_bandwidth),
           bw_ratio_guard_exit |->
               TrainBwRatio(r.guard_bandwidth, r.exit_bandwidth),
           bw_ratio_middle_exit |->
               TrainBwRatio(r.middle_bandwidth, r.exit_bandwidth),
           bw_total |-> r.guard_bandwidth + r.middle_bandwidth + r.exit_bandwidth,
           bw_min |-> Min3(r.guard_bandwidth, r.middle_bandwidth, r.exit_bandwidth),
           bw_max |-> Max3(r.guard_bandwidth, r.middle_bandwidth, r.exit_bandwidth),
           bw_std |-> SampleStd3(r.guard_bandwidth, r.middle_bandwidth,
                                 r.exit_bandwidth),
           same_country_guard_middle |-> BoolInt(r.guard_country = r.middle_country),
           same_country_guard_exit |-> BoolInt(r.guard_country = r.exit_country),
           same_country_middle_exit |-> BoolInt(r.middle_country = r.exit_country),
           all_same_country |-> BoolInt(r.guard_country = r.middle_country
                                        /\ r.guard_country = r.exit_country),
           country_diversity |->
               TrainCountryDiversity(r.guard_country, r.middle_country,
                                     r.exit_country),
           guard_usage_freq |->
               n(LAMBDA x : x.guard_fingerprint = r.guard_fingerprint),
           middle_usage_freq |->
               n(LAMBDA x : x.middle_fingerprint = r.middle_fingerprint),
           exit_usage_freq |->
               n(LAMBDA x : x.exit_fingerprint = r.exit_fingerprint),
           guard_exit_pair_freq |->
               n(LAMBDA x : x.guard_fingerprint = r.guard_fingerprint
                            /\ x.exit_fingerprint = r.exit_fingerprint),
           guard_avg_bandwidth |->
               Frac(SumSeq(Column(RowsOfGuard(df, r.guard_fingerprint),
                                  "guard_bandwidth")),
                    Len(RowsOfGuard(df, r.guard_fingerprint))),
           guard_middle_pair_freq |->
               n(LAMBDA x : x.guard_fingerprint = r.guard_fingerprint
                            /\ x.middle_fingerprint = r.middle_fingerprint),
           guard_prefers_exit_country |->
               BoolInt(r.exit_country = guard_top_country[r.guard_fingerprint]),
           middle_fingerprint_encoded |->
               LabelEncoderTransform(encs["middle_fingerprint"],
                                     r.middle_fingerprint).value,
           exit_fingerprint_encoded |->
               LabelEncoderTransform(encs["exit_fingerprint"],
                                     r.exit_fingerprint).value,
           guard_country_encoded |->
               LabelEncoderTransform(encs["guard_country"], r.guard_country).value,
           middle_country_encoded |->
               LabelEncoderTransform(encs["middle_country"], r.middle_country).value,
           exit_country_encoded |->
               LabelEncoderTransform(encs["exit_country"], r.exit_country).value,
           guard_label |->
               LabelEncoderTransform(encs["guard_fingerprint"],
                                     r.guard_fingerprint).value,
           bw_guard_x_setup |-> r.guard_bandwidth * r.circuit_setup_duration,
           bw_total_x_bytes |->
               (r.guard_bandwidth + r.middle_bandwidth + r.exit_bandwidth)
                   * r.total_bytes]
    IN [df |-> [i \in DOMAIN df |-> out(df[i])], encoders |-> encs]

\* ---------------------------- scripts/predict_guard.py: batch inference

BatchStabilizer == 1000000

BatchBwRatio(a, b) == BwRatio(a, b, BatchStabilizer)

\* df[[guard_country, middle_country, exit_country]].nunique(axis=1), as the
\* fraction n / 1.
BatchCountryDiversity(gc, mc, ec) == Frac(Cardinality({gc, mc, ec}), 1)

\* df[name] = value for every name of updates; other columns stay.
Assign(r, updates) ==
    [f \in DOMAIN r \cup DOMAIN updates |->
        IF f \in DOMAIN updates THEN updates[f] ELSE r[f]]

NoBatch ==
    [called |-> FALSE, circuit_data |-> <<>>, k |-> 0, raised |-> FALSE,
     failed_at |-> "", X |-> <<>>, probabilities |-> <<>>, results |-> <<>>]

\* predict_top_k_guards(circuit_data, model, encoders, feature_cols, k).
\* rows[i] is what the booster computes for row i of X and orders[i] is
\* np.argsort's answer for it.  le.transform and inverse_transform raise
\* ValueError, the column selection KeyError; nothing catches them.
predict_top_k_guards(circuit_data, m, encs, feature_cols, k, rows, orders) ==
    LET base == [NoBatch EXCEPT !.called = TRUE, !.circuit_data = circuit_data,
                                !.k = k]
        fail(step) == [base EXCEPT !.raised = TRUE, !.failed_at = step]
        enc(r, col) == LabelEncoderTransform(encs[col], r[col])
        frame(r) ==
          Assign(r,
            [bw_ratio_guard_middle |->
                 BatchBwRatio(r.guard_bandwidth, r.middle_bandwidth),
             bw_ratio_guard_exit |->
                 BatchBwRatio(r.guard_bandwidth, r.exit_bandwidth),
             bw_ratio_middle_exit |->
                 BatchBwRatio(r.middle_bandwidth, r.exit_bandwidth),
             bw_total |-> r.guard_bandwidth + r.middle_bandwidth + r.exit_bandwidth,
             bw_min |-> Min3(r.guard_bandwidth, r.middle_bandwidth, r.exit_bandwidth),
             bw_max |-> Max3(r.guard_bandwidth, r.middle_bandwidth, r.exit_bandwidth),
             bw_std |-> SampleStd3(r.guard_bandwidth, r.middle_bandwidth,
                                   r.exit_bandwidth),
             same_country_guard_middle |-> BoolInt(r.guard_country = r.middle_country),
             same_country_guard_exit |-> BoolInt(r.guard_country = r.exit_country),
             same_country_middle_exit |-> BoolInt(r.middle_country = r.exit_country),
             all_same_country |-> BoolInt(r.guard_country = r.middle_country
                                          /\ r.guard_country = r.exit_country),
             country_diversity |->
                 BatchCountryDiversity(r.guard_country, r.middle_country,
                                       r.exit_country),
             middle_fingerprint_encoded |-> enc(r, "middle_fingerprint").value,
             exit_fingerprint_encoded |-> enc(r, "exit_fingerprint").value,
             guard_country_encoded |-> enc(r, "guard_country").value,
             middle_country_encoded |-> enc(r, "middle_country").value,
             exit_country_encoded |-> enc(r, "exit_country").value,
             bw_guard_x_setup |->
                 NanMul(r.guard_bandwidth, r.circuit_setup_duration),
             bw_total_x_bytes |->
                 NanMul(r.guard_bandwidth + r.middle_bandwidth + r.exit_bandwidth,
                        r.total_bytes)])
        df == [i \in DOMAIN circuit_data |-> frame(circuit_data[i])]
        X == [i \in DOMAIN df |->
                [j \in DOMAIN feature_cols |->
                    <<feature_cols[j],
                      FillNa(feature_cols[j], df[i][feature_cols[j]])>>]]
        top(i) == TopKIndices(orders[i], k)
        guard_encoder == encs["guard_fingerprint"]
    IN IF \E c \in DOMAIN EncodedCols : \E i \in DOMAIN circuit_data :
              enc(circuit_data[i], EncodedCols[c]).raised
       THEN fail("transform")
       ELSE IF \E i \in DOMAIN df : \E j \in DOMAIN feature_cols :
                  feature_cols[j] \notin DOMAIN df[i]
       THEN fail("select")
       ELSE IF \E i \in DOMAIN X : predict_proba(m, X[i], rows[i]).raised
       THEN [fail("predict_proba") EXCEPT !.X = X]
       ELSE IF \E i \in DOMAIN X : \E r \in DOMAIN top(i) :
                  LabelEncoderInverse(guard_encoder, top(i)[r]).raised
       THEN [fail("inverse_transform") EXCEPT !.X = X, !.probabilities = rows]
       ELSE [base EXCEPT
               !.X = X,
               !.probabilities = rows,
               !.results =
                 [i \in DOMAIN X |->
                   [circuit_id |-> circuit_data[i].circuit_id,
                    top_k_indices |-> top(i),
                    top_k_guards |->
                      [r \in DOMAIN top(i) |->
                          LabelEncoderInverse(guard_encoder, top(i)[r]).value],
                    top_k_probabilities |->
                      [r \in DOMAIN top(i) |-> rows[i][top(i)[r] + 1]]]]]

\* ------------------------------------ scripts/train_xgboost.py: metrics

FracAdd(a, b) == Frac(a[1] * b[2] + b[1] * a[2], a[2] * b[2])

RECURSIVE FracSum(_)
FracSum(seq) ==
    IF seq = <<>> THEN <<0, 1>> ELSE FracAdd(Head(seq), FracSum(Tail(seq)))

\* calculate_mrr dividing by the number of examples it found in a list.
calculate_mrr_over_hits(y_true, y_pred_proba, k, orders) ==
    LET top(i) == TopKIndices(orders[i], k)
        hit(i) == \E r \in DOMAIN top(i) : top(i)[r] = y_true[i]
        rank(i) == CHOOSE r \in DOMAIN top(i) : top(i)[r] = y_true[i]
        hits == Cardinality({i \in DOMAIN y_true : hit(i)})
        total == FracSum([i \in DOMAIN y_true |->
                             IF hit(i) THEN <<1, rank(i)>> ELSE <<0, 1>>])
    IN [y_true |-> y_true,
        raised |-> Len(y_true) = 0,
        top_k_indices |-> [i \in DOMAIN y_true |-> top(i)],
        mrr |-> IF hits = 0 THEN <<0, 1>>
                ELSE Frac(total[1], total[2] * hits)]

\* calculate_mrr(y_true, y_pred_proba, k); orders[i] is np.argsort's answer
\* for row i.  An empty y_true divides by zero.
calculate_mrr(y_true, y_pred_proba, k, orders) ==
    LET top(i) == TopKIndices(orders[i], k)
        hit(i) == \E r \in DOMAIN top(i) : top(i)[r] = y_true[i]
        rank(i) == CHOOSE r \in DOMAIN top(i) :
                       /\ top(i)[r] = y_true[i]
                       /\ \A q \in 1 .. (r - 1) : top(i)[q] # y_true[i]
        total == FracSum([i \in DOMAIN y_true |->
                             IF hit(i) THEN <<1, rank(i)>> ELSE <<0, 1>>])
    IN [y_true |-> y_true,
        raised |-> Len(y_true) = 0,
        top_k_indices |-> [i \in DOMAIN y_true |-> top(i)],
        mrr |-> IF Len(y_true) = 0 THEN <<0, 1>>
                ELSE Frac(total[1], total[2] * Len(y_true))]

\* np.argmax(row): the first index that holds the maximum.
ArgMax(row) ==
    (CHOOSE i \in DOMAIN row :
        /\ \A j \in DOMAIN row : row[j] <= row[i]
        /\ \A j \in 1 .. (i - 1) : row[j] < row[i]) - 1

\* np.argsort(row, kind = "mergesort"): stable, equal entries keep their
\* index order.
StableArgsort(row) ==
    CHOOSE p \in ArgsortResults(row) :
        \A i, j \in DOMAIN p :
            (i < j /\ row[p[i] + 1] = row[p[j] + 1]) => p[i] < p[j]

\* sklearn accuracy_score: the fraction of positions where the two agree.
accuracy_score(y_true, y_pred) ==
    IF Len(y_true) = 0 THEN <<0, 1>>
    ELSE Frac(Cardinality({i \in DOMAIN y_true : y_true[i] = y_pred[i]}),
              Len(y_true))

\* sklearn top_k_accuracy_score(y_true, y_score, k = k, labels =
\* np.arange(y_score.shape[1])).  With fewer than three columns the target
\* counts as binary and the 2-d score is rejected; a label outside the
\* columns and k < 1 are rejected.  Otherwise an example is a hit when its
\* label is among the first k of the stable argsort, reversed.
top_k_accuracy_score(y_true, y_score, k) ==
    LET n_classes == IF y_score = <<>> THEN 0 ELSE Len(y_score[1])
        sorted_pred(i) == TopKIndices(StableArgsort(y_score[i]), k)
        hits == {i \in DOMAIN y_true :
                    \E r \in DOMAIN sorted_pred(i) : sorted_pred(i)[r] = y_true[i]}
        bad == \/ Len(y_true) = 0
               \/ n_classes < 3
               \/ k < 1
               \/ \E i \in DOMAIN y_true : y_true[i] \notin 0 .. (n_classes - 1)
    IN [raised |-> bad,
        score |-> IF bad THEN <<0, 1>>
                  ELSE Frac(Cardinality(hits), Len(y_true))]

\* evaluate_topk(y_true, y_pred_proba, k_values): Top-1 through np.argmax,
\* every other k through top_k_accuracy_score.
evaluate_topk(y_true, y_pred_proba, k_values) ==
    LET one(k) ==
          IF k = 1
          THEN [raised |-> Len(y_true) = 0,
                score |-> accuracy_score(y_true,
                              [i \in DOMAIN y_true |-> ArgMax(y_pred_proba[i])])]
          ELSE top_k_accuracy_score(y_true, y_pred_proba, k)
    IN [k_values |-> k_values,
        raised |-> \E j \in DOMAIN k_values : one(k_values[j]).raised,
        results |-> [k \in Range(k_values) |-> one(k).score]]

\* ------------------------------------------------- the specifications

NoRankIn == [row |-> <<>>, k |-> 0]

NoEncoder ==
    [values |-> <<>>, fitted |-> FALSE, classes |-> <<>>, codes |-> <<>>,
     encoded |-> [called |-> FALSE, value |-> "", code |-> 0],
     decoded |-> [called |-> FALSE, index |-> 0, raised |-> FALSE, value |-> ""]]

NoEvalSet == [y_true |-> <<>>, y_pred_proba |-> <<>>, k |-> 0]

\* data/ and models/ before the pipeline has written anything, and neither
\* script started.
NoPipeline ==
    [files |-> [engineered_csv |-> None, encoders_pkl |-> None,
                model_json |-> None, feature_columns_pkl |-> None,
                feature_importance_csv |-> None,
                evaluation_metrics_json |-> None],
     prepare |-> "idle",
     train |-> "idle",
     X_columns |-> <<>>,
     y_column |-> ""]

\* train_xgboost.py has not run.
TrainIdle ==
    /\ eval_set = NoEvalSet
    /\ topk_acc = None
    /\ split = None
    /\ pipeline = NoPipeline

\* Nothing has run offline.
OfflineIdle ==
    /\ corpus = <<>>
    /\ engineered = None
    /\ batch = NoBatch
    /\ served = None
    /\ rank_in = NoRankIn
    /\ ranked = None
    /\ mrr = None
    /\ le = NoEncoder
    /\ TrainIdle

\* The backend before its startup handler has run.
Init ==
    /\ disk \in Disks
    /\ startup = "pending"
    /\ model = None
    /\ encoders = None
    /\ feature_columns = None
    /\ guard_fingerprints = None
    /\ guard_meta = <<>>
    /\ resp = NoResponse
    /\ OfflineIdle

Next ==
    \/ LoadModel
    \/ Predict

Spec == Init /\ [][Next]_vars

\* The backend after load_model has loaded the bundle the pipeline produces
\* from a dataset.
ServiceLoaded(dataset) ==
    /\ disk = [model_file |-> Some(TrainedModel(dataset)),
               encoders_file |-> Some(FitEncoders(dataset)),
               feature_cols_file |-> Some(TrainFeatureCols),
               metadata_csv |-> Some(MetaRows(dataset))]
    /\ startup = "done"
    /\ model = Some(TrainedModel(dataset))
    /\ encoders = Some(FitEncoders(dataset))
    /\ feature_columns = Some(TrainFeatureCols)
    /\ guard_fingerprints = Some(FitEncoders(dataset)["guard_fingerprint"])
    /\ guard_meta = LoadGuardMeta(MetaRows(dataset))
    /\ resp = NoResponse

\* prepare_features.py __main__: engineer the raw dataset, keep the frame and
\* the encoders.
PrepareFeatures ==
    /\ engineered = None
    /\ \E guard_top_country \in TopCountryChoices(corpus) :
          engineered' = Some(prepare_engineer_features(corpus, guard_top_country))
    /\ UNCHANGED <<corpus, batch, served, rank_in, ranked, mrr, le>>
    /\ UNCHANGED service_vars
    /\ UNCHANGED train_vars

\* Rows handed to batch inference: rows of the engineered frame (the sample of
\* predict_guard.py) and new circuits through relays or countries the
\* training data does not hold.
BatchSamples(df) ==
    {df[i] : i \in DOMAIN df}
        \cup {[df[1] EXCEPT !.exit_fingerprint = "E9"],
              [df[1] EXCEPT !.middle_country = "JP"]}

\* predict_guard.py: one call of predict_top_k_guards with the artifacts of
\* the training run.
BatchPredict ==
    /\ engineered # None
    /\ ~batch.called
    /\ \E r \in BatchSamples(engineered[1].df) :
       \E k \in {1, 5} :
       \E row \in ProbRows(TrainedModel(corpus).n_classes) :
       \E order \in ArgsortResults(row) :
          batch' = predict_top_k_guards(<<r>>, TrainedModel(corpus),
                                        engineered[1].encoders, TrainFeatureCols,
                                        k, <<row>>, <<order>>)
    /\ UNCHANGED <<corpus, engineered, served, rank_in, ranked, mrr, le>>
    /\ UNCHANGED service_vars
    /\ UNCHANGED train_vars

\* One call of the backend engineer_features.
ServeFeatures ==
    /\ served = None
    /\ \E request \in Requests :
          served' = Some([request |-> request,
                          frame |-> ServingFrame(request),
                          result |-> engineer_features(request)])
    /\ UNCHANGED <<corpus, engineered, batch, rank_in, ranked, mrr, le>>
    /\ UNCHANGED service_vars
    /\ UNCHANGED train_vars

InitFeat ==
    /\ corpus \in Corpora
    /\ engineered = None
    /\ batch = NoBatch
    /\ served = None
    /\ rank_in = NoRankIn
    /\ ranked = None
    /\ mrr = None
    /\ le = NoEncoder
    /\ ServiceLoaded(corpus)
    /\ TrainIdle

NextFeat ==
    \/ PrepareFeatures
    \/ BatchPredict
    \/ ServeFeatures

SpecFeat == InitFeat /\ [][NextFeat]_vars

\* Probability rows over the three guards of CorpusA.
RankRows == [DOMAIN FitEncoders(CorpusA)["guard_fingerprint"] -> 0 .. MaxRankProb]

\* get_top_k_predictions(probabilities, k) on the row and cutoff of rank_in.
RankBackend ==
    /\ ranked = None
    /\ \E order \in ArgsortResults(rank_in.row) :
          ranked' = Some(get_top_k_predictions(rank_in.row, rank_in.k, order))
    /\ UNCHANGED <<corpus, engineered, batch, served, rank_in, mrr, le>>
    /\ UNCHANGED service_vars
    /\ UNCHANGED train_vars

\* predict_top_k_guards on the first engineered row, the booster answering
\* with the row of rank_in.
RankBatch ==
    /\ ~batch.called
    /\ \E order \in ArgsortResults(rank_in.row) :
          batch' = predict_top_k_guards(<<engineered[1].df[1]>>,
                                        TrainedModel(corpus),
                                        engineered[1].encoders, TrainFeatureCols,
                                        rank_in.k, <<rank_in.row>>, <<order>>)
    /\ UNCHANGED <<corpus, engineered, served, rank_in, ranked, mrr, le>>
    /\ UNCHANGED service_vars
    /\ UNCHANGED train_vars

\* calculate_mrr on one labeled example whose probability row is rank_in's.
RankMrr ==
    /\ mrr = None
    /\ \E true_label \in 0 .. (Len(rank_in.row) - 1) :
       \E order \in ArgsortResults(rank_in.row) :
          mrr' = Some(calculate_mrr(<<true_label>>, <<rank_in.row>>, rank_in.k,
                                    <<order>>))
    /\ UNCHANGED <<corpus, engineered, batch, served, rank_in, ranked, le>>
    /\ UNCHANGED service_vars
    /\ UNCHANGED train_vars

InitRank ==
    /\ corpus = CorpusA
    /\ \E guard_top_country \in TopCountryChoices(CorpusA) :
          engineered = Some(prepare_engineer_features(CorpusA, guard_top_country))
    /\ batch = NoBatch
    /\ served = None
    /\ rank_in \in [row : RankRows, k : (-1) .. MaxK]
    /\ ranked = None
    /\ mrr = None
    /\ le = NoEncoder
    /\ ServiceLoaded(CorpusA)
    /\ TrainIdle

NextRank ==
    \/ RankBackend
    \/ RankBatch
    \/ RankMrr

SpecRank == InitRank /\ [][NextRank]_vars

\* POST /api/predict when the booster answers with the row of rank_in.
RankEndpoint ==
    /\ ~resp.called
    /\ \E request \in {r \in Requests : r.middle_fingerprint = ""} :
       \E order \in ArgsortResults(rank_in.row) :
          resp' = predict_guard_nodes(request, rank_in.row, order)
    /\ UNCHANGED <<disk, startup, model, encoders, feature_columns,
                   guard_fingerprints, guard_meta>>
    /\ UNCHANGED offline_vars

NextTopK ==
    \/ RankBackend
    \/ RankBatch
    \/ RankEndpoint

SpecTopK == InitRank /\ [][NextTopK]_vars

\* Values an encoder is fit on and asked about.
Countries == {"US", "DE", "FR", "JP"}

FitInputs == UNION {[1 .. n -> Countries] : n \in 1 .. MaxFitLen}

\* prepare_features.py: le.fit_transform(df[col]) on the column le.values.
EncoderFit ==
    /\ ~le.fitted
    /\ le' = [le EXCEPT
                !.fitted = TRUE,
                !.classes = LabelEncoderFit(le.values),
                !.codes = [i \in DOMAIN le.values |->
                              LabelEncoderTransform(LabelEncoderFit(le.values),
                                                    le.values[i]).value]]
    /\ UNCHANGED <<corpus, engineered, batch, served, rank_in, ranked, mrr>>
    /\ UNCHANGED service_vars
    /\ UNCHANGED train_vars

\* backend engineer_features: the try/except lookup of one value in the
\* fitted encoder.
EncoderEncode ==
    /\ le.fitted
    /\ \E v \in Countries :
          le' = [le EXCEPT
                   !.encoded =
                      [called |-> TRUE, value |-> v,
                       code |-> BackendEncode(
                                   Some([c \in {"exit_country"} |-> le.classes]),
                                   "exit_country", v)]]
    /\ UNCHANGED <<corpus, engineered, batch, served, rank_in, ranked, mrr>>
    /\ UNCHANGED service_vars
    /\ UNCHANGED train_vars

\* predict_top_k_guards: inverse_transform of one index.
EncoderDecode ==
    /\ le.fitted
    /\ \E idx \in (-1) .. MaxFitLen :
          le' = [le EXCEPT
                   !.decoded =
                      [called |-> TRUE, index |-> idx,
                       raised |-> LabelEncoderInverse(le.classes, idx).raised,
                       value |-> LabelEncoderInverse(le.classes, idx).value]]
    /\ UNCHANGED <<corpus, engineered, batch, served, rank_in, ranked, mrr>>
    /\ UNCHANGED service_vars
    /\ UNCHANGED train_vars

InitEnc ==
    /\ corpus = <<>>
    /\ engineered = None
    /\ batch = NoBatch
    /\ served = None
    /\ rank_in = NoRankIn
    /\ ranked = None
    /\ mrr = None
    /\ le \in {[NoEncoder EXCEPT !.values = vs] : vs \in FitInputs}
    /\ ServiceLoaded(CorpusA)
    /\ TrainIdle

NextEnc ==
    \/ EncoderFit
    \/ EncoderEncode
    \/ EncoderDecode

SpecEnc == InitEnc /\ [][NextEnc]_vars

\* Probability rows (in tenths) of the evaluation sets: a strict ranking and
\* rows with a tie at the top, below the top and at the bottom.
EvalRows == {<<1, 7, 2>>, <<5, 5, 0>>, <<2, 4, 4>>, <<0, 3, 0>>}

EvalSets ==
    UNION {[y_true : [1 .. n -> 0 .. 2],
            y_pred_proba : [1 .. n -> EvalRows],
            k : 1 .. MaxK] : n \in 1 .. MaxExamples}

\* np.argsort's answers for the rows of a matrix, one per row.
ArgsortChoices(P) ==
    {o \in [DOMAIN P -> UNION {ArgsortResults(P[i]) : i \in DOMAIN P}] :
        \A i \in DOMAIN P : o[i] \in ArgsortResults(P[i])}

\* train_xgboost.py main: mrr = calculate_mrr(y_test, y_pred_proba, k)
CalculateMrr ==
    /\ mrr = None
    /\ \E orders \in ArgsortChoices(eval_set.y_pred_proba) :
          mrr' = Some(calculate_mrr(eval_set.y_true, eval_set.y_pred_proba,
                                    eval_set.k, orders))
    /\ UNCHANGED <<corpus, engineered, batch, served, rank_in, ranked, le>>
    /\ UNCHANGED <<eval_set, topk_acc, split, pipeline>>
    /\ UNCHANGED service_vars

\* train_xgboost.py main: topk_results = evaluate_topk(y_test, y_pred_proba,
\* k_values), for the cutoffs 1 and k.
EvaluateTopK ==
    /\ topk_acc = None
    /\ topk_acc' = Some(evaluate_topk(eval_set.y_true, eval_set.y_pred_proba,
                                      <<1, eval_set.k>>))
    /\ UNCHANGED <<corpus, engineered, batch, served, rank_in, ranked, mrr, le>>
    /\ UNCHANGED <<eval_set, split, pipeline>>
    /\ UNCHANGED service_vars

InitEval ==
    /\ corpus = <<>>
    /\ engineered = None
    /\ batch = NoBatch
    /\ served = None
    /\ rank_in = NoRankIn
    /\ ranked = None
    /\ mrr = None
    /\ le = NoEncoder
    /\ eval_set \in EvalSets
    /\ topk_acc = None
    /\ split = None
    /\ pipeline = NoPipeline
    /\ ServiceLoaded(CorpusA)

NextEval ==
    \/ CalculateMrr
    \/ EvaluateTopK

SpecEval == InitEval /\ [][NextEval]_vars

\* ===================================================== claims: service

\* C1: a call of predict_guard_nodes made before load_model has completed
\* successfully, or after it has failed, is answered 503 'Model not loaded'
\* and runs neither feature engineering nor the model, and returns no
\* prediction.
C1_NotReadyAnswers503 ==
    (resp.called /\ resp.at_startup # "done") =>
        /\ resp.status = 503
        /\ resp.detail = "Model not loaded"
        /\ ~resp.ran_features
        /\ ~resp.ran_model
        /\ resp.predictions = <<>>

\* C2: load_model completes (Ready) only if the persisted feature-name list
\* has the length and order of the columns engineer_features produces.
C2_ReadyOnlyIfFeatureListMatches ==
    startup = "done" => feature_columns = Some(ServingColumns)

\* C3: the loaded bundle is entirely absent or entirely present: whenever
\* the global model is set, encoders, feature_columns and guard_fingerprints
\* are set too.
C3_BundleAllOrNothing ==
    model # None =>
        /\ encoders # None
        /\ feature_columns # None
        /\ guard_fingerprints # None

\* C7: when the service has loaded the feature list the training run saved,
\* every request reaches the model with a frame whose column names are that
\* list, in its order and count, and every name of the list is a column the
\* serving transform produces.
C7_ServingVectorMatchesTrainedList ==
    (resp.called /\ resp.at_startup = "done"
        /\ disk.feature_cols_file = Some(TrainFeatureCols)) =>
        /\ resp.ran_model
        /\ Names(resp.X) = TrainFeatureCols
        /\ Names(resp.X) = feature_columns[1]
        /\ \A i \in DOMAIN TrainFeatureCols :
              TrainFeatureCols[i] \in DOMAIN ServingFrame(resp.request)

C7_Witness ==
    /\ resp.status = 200
    /\ disk.feature_cols_file = Some(TrainFeatureCols)
    /\ Len(resp.X) = Len(TrainFeatureCols)

\* The value engineer_features hands to the encoder of a column.
EncodedInput(request, col) ==
    CASE col = "middle_fingerprint" ->
            IF request.middle_fingerprint # "" THEN request.middle_fingerprint
            ELSE "UNKNOWN"
      [] col = "exit_fingerprint" -> request.exit_fingerprint
      [] col = "guard_country" -> "US"
      [] col = "middle_country" ->
            IF request.middle_country # "" THEN request.middle_country
            ELSE "Unknown"
      [] col = "exit_country" -> request.exit_country

EncodedName(col) ==
    CASE col = "middle_fingerprint" -> "middle_fingerprint_encoded"
      [] col = "exit_fingerprint" -> "exit_fingerprint_encoded"
      [] col = "guard_country" -> "guard_country_encoded"
      [] col = "middle_country" -> "middle_country_encoded"
      [] col = "exit_country" -> "exit_country_encoded"

\* C8: in the frame the serving transform returns, each of the five encoded
\* fields is -1 when its value was never seen at fit time and is the index
\* of the value in the fitted class list when it was seen.
C8_ServingEncodesUnseenAsSentinel ==
    (resp.ran_features /\ resp.X # <<>> /\ encoders # None) =>
        \A c \in DOMAIN EncodedCols :
            LET col == EncodedCols[c]
                classes == encoders[1][col]
                v == EncodedInput(resp.request, col)
                e == XValue(resp.X, EncodedName(col))
            IN IF v \in Range(classes)
               THEN e \in 0 .. (Len(classes) - 1) /\ classes[e + 1] = v
               ELSE e = -1

C8_Witness ==
    /\ resp.status = 200
    /\ XValue(resp.X, "exit_fingerprint_encoded") = -1
    /\ XValue(resp.X, "middle_fingerprint_encoded") >= 0
    /\ XValue(resp.X, "middle_country_encoded") >= 0

\* ===================================================== claims: features

RatioNames ==
    <<"bw_ratio_guard_middle", "bw_ratio_guard_exit", "bw_ratio_middle_exit">>

BandwidthNames == <<"guard_bandwidth", "middle_bandwidth", "exit_bandwidth">>

\* Two rows (records of columns) with the same three bandwidths have the
\* same three ratio features.
SameRatios(a, b) ==
    (\A i \in DOMAIN BandwidthNames : a[BandwidthNames[i]] = b[BandwidthNames[i]])
        => \A i \in DOMAIN RatioNames : a[RatioNames[i]] = b[RatioNames[i]]

\* The feature vector X as a record of its columns.
AsRecord(X) == [name \in Range(Names(X)) |-> XValue(X, name)]

\* C5: for the same three relay bandwidths the three bandwidth-ratio
\* features of the training transform, of batch inference and of the serving
\* transform are identical.
C5_SameRatiosOnEveryPath ==
    /\ (engineered # None /\ served # None) =>
          \A i \in DOMAIN engineered[1].df :
              SameRatios(engineered[1].df[i], served[1].frame)
    /\ (batch.X # <<>> /\ served # None) =>
          SameRatios(AsRecord(batch.X[1]), served[1].frame)
    /\ (engineered # None /\ batch.X # <<>>) =>
          \A i \in DOMAIN engineered[1].df :
              SameRatios(engineered[1].df[i], AsRecord(batch.X[1]))

\* (number of distinct countries among guard, middle and exit) / 3
DistinctOverThree(gc, mc, ec) == Frac(Cardinality({gc, mc, ec}), 3)

\* C6: on the training, batch and serving path country_diversity is the
\* number of distinct countries among guard, middle and exit divided by 3.
C6_CountryDiversityIsDistinctOverThree ==
    /\ engineered # None =>
          \A i \in DOMAIN engineered[1].df :
              LET r == engineered[1].df[i]
              IN r.country_diversity =
                     DistinctOverThree(r.guard_country, r.middle_country,
                                       r.exit_country)
    /\ batch.X # <<>> =>
          LET r == batch.circuit_data[1]
          IN XValue(batch.X[1], "country_diversity") =
                 DistinctOverThree(r.guard_country, r.middle_country,
                                   r.exit_country)
    /\ served # None =>
          served[1].frame.country_diversity =
              DistinctOverThree(EncodedInput(served[1].request, "guard_country"),
                                EncodedInput(served[1].request, "middle_country"),
                                EncodedInput(served[1].request, "exit_country"))

\* C9: a batch row with a fingerprint or country never seen at fit time is
\* encoded to -1 and still gets a ranked prediction; the call does not fail.
C9_BatchEncodesUnseenAsSentinel ==
    (batch.called /\ engineered # None) =>
        \A c \in DOMAIN EncodedCols :
            LET col == EncodedCols[c]
                v == batch.circuit_data[1][col]
            IN v \notin Range(engineered[1].encoders[col]) =>
                  /\ ~batch.raised
                  /\ batch.results # <<>>
                  /\ XValue(batch.X[1], EncodedName(col)) = -1

\* ====================================================== claims: ranking

\* The class index of a guard fingerprint in the loaded class list.
ClassIndex(fp) ==
    (CHOOSE i \in DOMAIN guard_fingerprints[1] : guard_fingerprints[1][i] = fp) - 1

\* A list of class indices is in descending order of probability, classes of
\* equal probability in ascending index order.
DescendingTiesAscending(indices, row) ==
    \A i, j \in DOMAIN indices :
        i < j =>
            \/ row[indices[i] + 1] > row[indices[j] + 1]
            \/ /\ row[indices[i] + 1] = row[indices[j] + 1]
               /\ indices[i] < indices[j]

\* C4: for k >= 1 the top-K list of get_top_k_predictions, of
\* predict_top_k_guards and of calculate_mrr is sorted by descending
\* probability, equal probabilities in ascending class-index order.
C4_TopKDescendingTiesByIndex ==
    rank_in.k >= 1 =>
        /\ (ranked # None /\ ~ranked[1].raised) =>
              DescendingTiesAscending(
                  [r \in DOMAIN ranked[1].predictions |->
                      ClassIndex(ranked[1].predictions[r].guard_fingerprint)],
                  rank_in.row)
        /\ (batch.called /\ ~batch.raised) =>
              DescendingTiesAscending(batch.results[1].top_k_indices, rank_in.row)
        /\ (mrr # None /\ ~mrr[1].raised) =>
              DescendingTiesAscending(mrr[1].top_k_indices[1], rank_in.row)

\* ====================================================== claims: encoder

\* C10 (first-encounter order): an encoder fit on US, DE, FR assigns US->0, DE->1, FR->2;
\* encoding the unseen JP gives -1 and decoding 1 gives DE.
C10_FirstSeenOrderScenario ==
    (le.fitted /\ le.values = <<"US", "DE", "FR">>) =>
        /\ le.codes = <<0, 1, 2>>
        /\ (le.encoded.called /\ le.encoded.value = "JP") => le.encoded.code = -1
        /\ (le.decoded.called /\ le.decoded.index = 1) =>
              (~le.decoded.raised /\ le.decoded.value = "DE")

\* C10 (lexical order): an encoder fit on US, DE, FR assigns the indices in lexical
\* order, DE->0, FR->1, US->2; the serving lookup of the unseen JP gives -1
\* and decoding 1 gives FR.
C10_LexicalOrderScenario ==
    (le.fitted /\ le.values = <<"US", "DE", "FR">>) =>
        /\ le.classes = <<"DE", "FR", "US">>
        /\ le.codes = <<2, 0, 1>>
        /\ (le.encoded.called /\ le.encoded.value = "JP") => le.encoded.code = -1
        /\ (le.decoded.called /\ le.decoded.index = 1) =>
              (~le.decoded.raised /\ le.decoded.value = "FR")

C10_Witness ==
    /\ le.fitted
    /\ le.values = <<"US", "DE", "FR">>
    /\ le.encoded.called
    /\ le.encoded.value = "JP"
    /\ le.encoded.code = -1
    /\ le.decoded.called
    /\ le.decoded.index = 1
    /\ le.decoded.value = "FR"

\* C11: a fitted encoder is a bijection between the N distinct values it was
\* fit on and the indices 0..N-1: duplicates share one index, and decoding
\* the index of a fit-time value gives that value back.
C11_EncoderIsBijection ==
    le.fitted =>
        /\ Len(le.classes) = Cardinality(Range(le.values))
        /\ Range(le.classes) = Range(le.values)
        /\ \A i \in DOMAIN le.values :
              /\ le.codes[i] \in 0 .. (Len(le.classes) - 1)
              /\ ~LabelEncoderInverse(le.classes, le.codes[i]).raised
              /\ LabelEncoderInverse(le.classes, le.codes[i]).value = le.values[i]
        /\ \A i, j \in DOMAIN le.values :
              (le.codes[i] = le.codes[j]) <=> (le.values[i] = le.values[j])
        /\ (/\ le.encoded.called /\ le.encoded.value \in Range(le.values)
            /\ le.decoded.called /\ le.decoded.index = le.encoded.code) =>
              (~le.decoded.raised /\ le.decoded.value = le.encoded.value)

C11_Witness ==
    /\ le.fitted
    /\ Len(le.values) = 3
    /\ Cardinality(Range(le.values)) = 2
    /\ le.encoded.called
    /\ le.encoded.value \in Range(le.values)
    /\ le.encoded.code = 1
    /\ le.decoded.called
    /\ le.decoded.index = 1
    /\ le.decoded.value = le.encoded.value

\* ====================================================== claims: metrics

\* Example i's true class is in the list calculate_mrr ranked it against.
InTopK(i) ==
    \E r \in DOMAIN mrr[1].top_k_indices[i] :
        mrr[1].top_k_indices[i][r] = mrr[1].y_true[i]

\* Example i's true class is first in that list.
AtRankOne(i) ==
    /\ mrr[1].top_k_indices[i] # <<>>
    /\ mrr[1].top_k_indices[i][1] = mrr[1].y_true[i]

\* C12: on a non-empty labeled set with k >= 1, calculate_mrr returns a
\* value in [0, 1]; it is 0 exactly when no example's true class is in its
\* top-k list, and 1 exactly when every example's true class is at rank 1.
C12_MrrRangeAndExtremes ==
    (mrr # None /\ eval_set.y_true # <<>> /\ eval_set.k >= 1) =>
        /\ ~mrr[1].raised
        /\ 0 <= mrr[1].mrr[1]
        /\ mrr[1].mrr[1] <= mrr[1].mrr[2]
        /\ (mrr[1].mrr[1] = 0) <=> (\A i \in DOMAIN mrr[1].y_true : ~InTopK(i))
        /\ (mrr[1].mrr[1] = mrr[1].mrr[2])
              <=> (\A i \in DOMAIN mrr[1].y_true : AtRankOne(i))

C12_Witness ==
    /\ mrr # None
    /\ Len(eval_set.y_true) = 2
    /\ InTopK(1)
    /\ ~AtRankOne(1)
    /\ ~InTopK(2)
    /\ mrr[1].mrr[1] > 0
    /\ mrr[1].mrr[1] < mrr[1].mrr[2]

\* The fraction of the examples of the evaluation set that satisfy P.
FractionOfExamples(P(_)) ==
    Frac(Cardinality({i \in DOMAIN eval_set.y_true : P(i)}), Len(eval_set.y_true))

\* C13: the Top-K accuracy evaluate_topk reports is the fraction of examples
\* whose true class is in the top-K list calculate_mrr ranks against; Top-1
\* accuracy is the fraction of examples with argmax(P[i]) = y[i] and is the
\* fraction of examples calculate_mrr places at rank 1, ties included.
C13_TopKAccuracyMatchesMrrLists ==
    (topk_acc # None /\ mrr # None) =>
        /\ ~topk_acc[1].raised
        /\ topk_acc[1].results[eval_set.k] = FractionOfExamples(InTopK)
        /\ topk_acc[1].results[1] =
              FractionOfExamples(LAMBDA i : ArgMax(eval_set.y_pred_proba[i])
                                                = eval_set.y_true[i])
        /\ topk_acc[1].results[1] = FractionOfExamples(AtRankOne)

\* C14: three classes and the single row [0.1, 0.7, 0.2].  True label 1:
\* Top-1 accuracy 1 and MRR@3 = 1.  True label 0: class 0 is ranked third,
\* MRR@3 = 1/3, Top-1 accuracy 0 and Top-3 accuracy 1.
C14_ScenarioRow172 ==
    (eval_set.y_pred_proba = <<<<1, 7, 2>>>> /\ eval_set.k = 3) =>
        /\ (eval_set.y_true = <<1>> /\ topk_acc # None) =>
              (~topk_acc[1].raised /\ topk_acc[1].results[1] = <<1, 1>>)
        /\ (eval_set.y_true = <<1>> /\ mrr # None) =>
              (~mrr[1].raised /\ mrr[1].mrr = <<1, 1>>)
        /\ (eval_set.y_true = <<0>> /\ mrr # None) =>
              /\ ~mrr[1].raised
              /\ mrr[1].top_k_indices[1] = <<1, 2, 0>>
              /\ mrr[1].mrr = <<1, 3>>
        /\ (eval_set.y_true = <<0>> /\ topk_acc # None) =>
              /\ ~topk_acc[1].raised
              /\ topk_acc[1].results[1] = <<0, 1>>
              /\ topk_acc[1].results[3] = <<1, 1>>

C14_Witness ==
    /\ eval_set = [y_true |-> <<0>>, y_pred_proba |-> <<<<1, 7, 2>>>>, k |-> 3]
    /\ mrr # None
    /\ mrr[1].mrr = <<1, 3>>
    /\ topk_acc # None
    /\ topk_acc[1].results[3] = <<1, 1>>

\* ====================================================== claims: top-K list

\* C15: a list returned by get_top_k_predictions has the ranks 1, 2, ..., n
\* in list order and confidences that never increase with the rank.
C15_RanksFromOneConfidenceNonIncreasing ==
    (ranked # None /\ ~ranked[1].raised) =>
        LET predictions == ranked[1].predictions
        IN /\ \A r \in DOMAIN predictions : predictions[r].rank = r
           /\ \A r, q \in DOMAIN predictions :
                 r < q => predictions[r].confidence >= predictions[q].confidence

C15_Witness ==
    /\ ranked # None
    /\ ~ranked[1].raised
    /\ Len(ranked[1].predictions) = 3
    /\ ranked[1].predictions[1].confidence > ranked[1].predictions[2].confidence
    /\ ranked[1].predictions[2].confidence = ranked[1].predictions[3].confidence
    /\ ranked[1].predictions[3].rank = 3

MinOf(a, b) == IF a <= b THEN a ELSE b

\* C16: for k >= 1 and a row over N classes the top-K list of
\* get_top_k_predictions and of predict_top_k_guards has exactly min(k, N)
\* entries, and the predict endpoint returns exactly min(10, N) predictions.
C16_ListLengthIsMinKN ==
    rank_in.k >= 1 =>
        /\ ranked # None =>
              /\ ~ranked[1].raised
              /\ Len(ranked[1].predictions) = MinOf(rank_in.k, Len(rank_in.row))
        /\ batch.called =>
              /\ ~batch.raised
              /\ Len(batch.results[1].top_k_guards)
                    = MinOf(rank_in.k, Len(rank_in.row))
              /\ Len(batch.results[1].top_k_probabilities)
                    = MinOf(rank_in.k, Len(rank_in.row))
        /\ resp.called =>
              /\ resp.status = 200
              /\ Len(resp.predictions) = MinOf(10, Len(rank_in.row))

C16_Witness ==
    /\ rank_in.k = 2
    /\ ranked # None
    /\ Len(ranked[1].predictions) = 2
    /\ batch.called
    /\ Len(batch.results[1].top_k_guards) = 2
    /\ resp.called
    /\ Len(resp.predictions) = 3

\* C17: a top-K request with k <= 0, to get_top_k_predictions or to
\* predict_top_k_guards, is rejected as an input error and produces no list.
C17_NonPositiveKRejected ==
    rank_in.k <= 0 =>
        /\ ranked # None =>
              (ranked[1].raised /\ ranked[1].predictions = <<>>)
        /\ batch.called =>
              (batch.raised /\ batch.results = <<>>)

\* C18: serving a prediction request leaves the loaded bundle as it was:
\* model, encoders, feature_columns, guard_fingerprints and guard_meta have
\* the same values after every step that answers a request, and after every
\* step taken once the startup handler has run.
C18_RequestLeavesBundleUnchanged ==
    [][(resp' # resp \/ startup # "pending") =>
          UNCHANGED <<model, encoders, feature_columns,
                      guard_fingerprints, guard_meta>>]_vars

C18_Witness ==
    /\ startup = "done"
    /\ resp.called /\ resp.ran_model /\ resp.at_startup = "done"
    /\ model = disk.model_file
    /\ encoders = disk.encoders_file
    /\ feature_columns = disk.feature_cols_file
    /\ guard_fingerprints = Some(disk.encoders_file[1]["guard_fingerprint"])
    /\ guard_meta # <<>>
    /\ resp.request.exit_country = "JP"

\* The loaded service answering requests, with one direct call of
\* engineer_features at any point among them.
InitTwice ==
    /\ corpus \in Corpora
    /\ ServiceLoaded(corpus)
    /\ engineered = None
    /\ batch = NoBatch
    /\ served = None
    /\ rank_in = NoRankIn
    /\ ranked = None
    /\ mrr = None
    /\ le = NoEncoder
    /\ TrainIdle

\* One request answered by the loaded service; the classifier puts all its
\* weight on the first class.
ServeRequest ==
    /\ \E request \in Requests :
       \E order \in ArgsortResults([i \in 1..NClasses |->
                                       IF i = 1 THEN MaxProb ELSE 0]) :
          resp' = predict_guard_nodes(request,
                      [i \in 1..NClasses |-> IF i = 1 THEN MaxProb ELSE 0],
                      order)
    /\ UNCHANGED <<disk, startup, model, encoders, feature_columns,
                   guard_fingerprints, guard_meta>>
    /\ UNCHANGED offline_vars

NextTwice ==
    \/ ServeFeatures
    \/ ServeRequest

SpecTwice == InitTwice /\ [][NextTwice]_vars

SplitLen == 3

TestSizePermille == 150
ValSizePermille == 176

CeilDiv(a, b) == (a + b - 1) \div b

\* sklearn train_test_split(X, y, test_size, random_state=42, stratify=y)
\* over the rows idx: the test part has ceil(test_size * n) rows and the
\* train part the rest, each class is spread in proportion (rounded either
\* way), and which rows go where is the shuffle's choice.  It raises when a
\* class has a single row or a part is smaller than the number of classes.
train_test_split(idx, y, permille) ==
    LET n == Cardinality(idx)
        classes == {y[i] : i \in idx}
        members(c) == {i \in idx : y[i] = c}
        n_test == CeilDiv(permille * n, 1000)
        n_train == n - n_test
    IN IF \/ n = 0
          \/ n_train = 0
          \/ \E c \in classes : Cardinality(members(c)) < 2
          \/ n_train < Cardinality(classes)
          \/ n_test < Cardinality(classes)
       THEN {[raised |-> TRUE, train |-> {}, test |-> {}]}
       ELSE {[raised |-> FALSE, train |-> idx \ T, test |-> T] :
                T \in {U \in SUBSET idx :
                         /\ Cardinality(U) = n_test
                         /\ \A c \in classes :
                              LET kept == Cardinality(members(c) \ U)
                                  share == Cardinality(members(c)) * n_train
                              IN /\ share \div n <= kept
                                 /\ kept <= CeilDiv(share, n)}}

NoSplit == [raised |-> TRUE, train |-> {}, val |-> {}, test |-> {}]

\* train_xgboost.py main: the engineered frame, aggregates included, is read
\* and then split 70/15/15 into train, validation and test rows.
TrainSplit ==
    /\ engineered # None
    /\ split = None
    /\ LET df == engineered[1].df
           y == Column(df, "guard_label")
       IN \E s1 \in train_test_split(DOMAIN df, y, TestSizePermille) :
             IF s1.raised
             THEN split' = Some(NoSplit)
             ELSE \E s2 \in train_test_split(s1.train, y, ValSizePermille) :
                     split' = Some(IF s2.raised THEN NoSplit
                                   ELSE [raised |-> FALSE, train |-> s2.train,
                                         val |-> s2.test, test |-> s1.test])
    /\ UNCHANGED <<corpus, engineered, batch, served, rank_in, ranked, mrr, le>>
    /\ UNCHANGED <<eval_set, topk_acc, pipeline>>
    /\ UNCHANGED service_vars

\* Raw datasets large enough to split: circuits through one guard, and a
\* dataset with two guards of four circuits each; CorpusA has guards with a
\* single circuit, which the stratified split refuses.
SplitCircuits ==
    {[guard_bandwidth |-> b, exit |-> e] :
        b \in {60, 85}, e \in {<<"E1", "FR">>, <<"E2", "US">>}}

SingleGuardCorpora ==
    {[i \in 1..SplitLen |->
        Row(i, "G1", "DE", c[i].guard_bandwidth, "M1", "DE", 70,
            c[i].exit[1], c[i].exit[2], 65, 10, 50)] :
        c \in [1..SplitLen -> SplitCircuits]}

TwoGuardCorpus ==
    <<Row(1, "G1", "DE", 60, "M1", "DE", 70, "E1", "FR", 65, 10, 50),
      Row(2, "G2", "US", 85, "M2", "US", 70, "E2", "US", 40, 20, 80),
      Row(3, "G1", "DE", 85, "M1", "DE", 70, "E1", "FR", 65, 10, 50),
      Row(4, "G2", "US", 90, "M1", "DE", 70, "E2", "US", 40, 15, 30),
      Row(5, "G1", "DE", 60, "M2", "US", 70, "E2", "US", 65, 10, 50),
      Row(6, "G2", "US", 85, "M2", "US", 70, "E1", "FR", 40, 20, 80),
      Row(7, "G1", "DE", 85, "M1", "DE", 70, "E1", "FR", 65, 10, 50),
      Row(8, "G2", "US", 90, "M2", "US", 70, "E2", "US", 40, 15, 30)>>

SplitCorpora == SingleGuardCorpora \cup {TwoGuardCorpus, CorpusA}

InitSplit ==
    /\ corpus \in SplitCorpora
    /\ engineered = None
    /\ batch = NoBatch
    /\ served = None
    /\ rank_in = NoRankIn
    /\ ranked = None
    /\ mrr = None
    /\ le = NoEncoder
    /\ TrainIdle
    /\ ServiceLoaded(CorpusA)

NextSplit ==
    \/ PrepareFeatures
    \/ TrainSplit

SpecSplit == InitSplit /\ [][NextSplit]_vars

\* The aggregate features of row r, as they come out when only the rows of
\* src contribute.
AggregatesFrom(src, r, r_top) ==
    LET n(P(_)) == Len(SelectSeq(src, P))
        of_guard == RowsOfGuard(src, r.guard_fingerprint)
    IN /\ r.guard_usage_freq =
              n(LAMBDA x : x.guard_fingerprint = r.guard_fingerprint)
       /\ r.middle_usage_freq =
              n(LAMBDA x : x.middle_fingerprint = r.middle_fingerprint)
       /\ r.exit_usage_freq =
              n(LAMBDA x : x.exit_fingerprint = r.exit_fingerprint)
       /\ r.guard_exit_pair_freq =
              n(LAMBDA x : x.guard_fingerprint = r.guard_fingerprint
                           /\ x.exit_fingerprint = r.exit_fingerprint)
       /\ r.guard_middle_pair_freq =
              n(LAMBDA x : x.guard_fingerprint = r.guard_fingerprint
                           /\ x.middle_fingerprint = r.middle_fingerprint)
       /\ of_guard # <<>>
       /\ r.guard_avg_bandwidth =
              Frac(SumSeq(Column(of_guard, "guard_bandwidth")), Len(of_guard))
       /\ r.guard_prefers_exit_country =
              BoolInt(r.exit_country = r_top[r.guard_fingerprint])

\* C20: the historical aggregates in the features of validation and test
\* rows are computed from the training partition only: each equals the
\* value that the training rows alone give.
C20_AggregatesFromTrainingOnly ==
    (split # None /\ ~split[1].raised) =>
        LET df == engineered[1].df
            training == SelectSeq(df, LAMBDA r :
                            \E j \in split[1].train :
                                df[j].circuit_id = r.circuit_id)
        IN \E r_top \in TopCountryChoices(training) :
              \A i \in split[1].val \cup split[1].test :
                  AggregatesFrom(training, df[i], r_top)

\* C21: at inference the middle and exit usage frequencies are looked up in
\* the aggregate table of the training run: the feature equals the relay's
\* usage count in the training corpus, and 0 for a relay unseen in training.
C21_ServingLooksUpUsageCounts ==
    (served # None /\ ~served[1].result.raised) =>
        LET X == served[1].result.X
            req == served[1].request
            usage(col, fp) ==
                Frac(Len(SelectSeq(corpus, LAMBDA r : r[col] = fp)), 1)
        IN /\ XValue(X, "exit_usage_freq") =
                  usage("exit_fingerprint", req.exit_fingerprint)
           /\ XValue(X, "middle_usage_freq") =
                  usage("middle_fingerprint", req.middle_fingerprint)

\* ---------------------- the pipeline: prepare_features.py, train_xgboost.py

\* The cutoffs train_xgboost.py main evaluates.
TrainKValues == <<1, 3, 5, 10, 20, 50, 100>>

TrainMrrK == 50

GuardsOfThree == <<"G1", "G2", "G3">>

ThreeGuardLen == 15

\* A dataset with three guards of five circuits each, the smallest one the
\* 70/15/15 stratified split and the Top-K evaluation both accept.
ThreeGuardCorpus ==
    [i \in 1..ThreeGuardLen |->
        Row(i, GuardsOfThree[(i % 3) + 1], "DE", 60 + (i % 2) * 25,
            "M1", "DE", 70,
            IF i % 2 = 0 THEN "E1" ELSE "E2",
            IF i % 2 = 0 THEN "FR" ELSE "US", 65, 10, 50)]

\* The raw datasets the pipeline is run on: the empty one, one guard with one
\* circuit, guards with too few circuits to split, two guards, three guards.
PipelineCorpora ==
    {<<>>, CorpusC, CorpusA, TwoGuardCorpus, ThreeGuardCorpus}
        \cup SingleGuardCorpora

\* prepare_features.py __main__: read the raw dataset, engineer it, write
\* data/circuit_data_engineered.csv and then models/encoders.pkl.  Nothing
\* checks the number of rows or of guards.  On an empty dataset the row-wise
\* df.apply returns a frame, and whether assigning it to a column raises is
\* up to the pandas version.
PrepareMain ==
    /\ pipeline.prepare = "idle"
    /\ \E raised \in (IF corpus = <<>> THEN BOOLEAN ELSE {FALSE}) :
       \E guard_top_country \in TopCountryChoices(corpus) :
          LET out == prepare_engineer_features(corpus, guard_top_country)
          IN pipeline' =
               IF raised
               THEN [pipeline EXCEPT !.prepare = "failed"]
               ELSE [pipeline EXCEPT
                        !.prepare = "done",
                        !.files.engineered_csv = Some(out.df),
                        !.files.encoders_pkl = Some(out.encoders)]
    /\ UNCHANGED <<corpus, engineered, batch, served, rank_in, ranked, mrr, le>>
    /\ UNCHANGED <<eval_set, topk_acc, split>>
    /\ UNCHANGED service_vars

\* The rows of df at the indices idx, in the order of df.
RowsAt(df, idx) ==
    SelectSeq(df, LAMBDA r : \E j \in idx : df[j].circuit_id = r.circuit_id)

\* The two stratified splits of train_xgboost.py main (70/15/15), as far as
\* the rest of main depends on them: whether one of them raised, the labels
\* y_test of the test rows, and the sizes of the three parts.
SplitOutcomes(df, y) ==
    UNION {IF s1.raised
           THEN {[raised |-> TRUE, y_test |-> <<>>, train_samples |-> 0,
                  val_samples |-> 0, test_samples |-> 0]}
           ELSE {IF s2.raised
                 THEN [raised |-> TRUE, y_test |-> <<>>, train_samples |-> 0,
                       val_samples |-> 0, test_samples |-> 0]
                 ELSE [raised |-> FALSE,
                       y_test |-> Column(RowsAt(df, s1.test), "guard_label"),
                       train_samples |-> Cardinality(s2.train),
                       val_samples |-> Cardinality(s2.test),
                       test_samples |-> Cardinality(s1.test)] :
                    s2 \in train_test_split(s1.train, y, ValSizePermille)} :
              s1 \in train_test_split(DOMAIN df, y, TestSizePermille)}

\* train_xgboost.py main, from reading the engineered dataset to the four
\* files it writes at its end.  train names the statement an exception
\* came from; an exception ends the script there.
TrainMain ==
    /\ pipeline.train = "idle"
    /\ IF pipeline.files.engineered_csv = None
       THEN pipeline' = [pipeline EXCEPT !.train = "no_dataset"]
       ELSE
         LET df == pipeline.files.engineered_csv[1]
             feature_cols == SelectSeq(EngineeredCsvColumns, IsFeatureCol)
             y == Column(df, "guard_label")
             n_classes == Cardinality(Range(y))
             chosen == [pipeline EXCEPT !.X_columns = feature_cols,
                                        !.y_column = "guard_label"]
         IN IF n_classes = 0
            THEN pipeline' = [chosen EXCEPT !.train = "failed_statistics"]
            ELSE
              \E s \in SplitOutcomes(df, y) :
                IF s.raised
                THEN pipeline' = [chosen EXCEPT !.train = "failed_split"]
                ELSE
                  \E fit_raised \in BOOLEAN :
                    IF fit_raised
                    THEN pipeline' = [chosen EXCEPT !.train = "failed_fit"]
                    ELSE
                      \E c \in 1..n_classes :
                        LET y_pred_proba ==
                                [i \in DOMAIN s.y_test |->
                                    [j \in 1..n_classes |->
                                        IF j = c THEN MaxProb ELSE 0]]
                            topk_results ==
                                evaluate_topk(s.y_test, y_pred_proba, TrainKValues)
                        IN IF topk_results.raised
                           THEN pipeline' =
                                  [chosen EXCEPT !.train = "failed_evaluate_topk"]
                           ELSE
                             \E orders \in ArgsortChoices(y_pred_proba) :
                               LET m == calculate_mrr(s.y_test, y_pred_proba,
                                                      TrainMrrK, orders)
                               IN pipeline' =
                                    [chosen EXCEPT
                                       !.train = "done",
                                       !.files.model_json =
                                           Some([fitted |-> TRUE,
                                                 feature_names |-> feature_cols,
                                                 n_classes |-> n_classes,
                                                 score |-> ScoreTable(corpus)]),
                                       !.files.feature_columns_pkl =
                                           Some(feature_cols),
                                       !.files.feature_importance_csv =
                                           Some(ScoreTable(corpus)),
                                       !.files.evaluation_metrics_json =
                                           Some([topk_accuracy |-> topk_results.results,
                                                 mrr |-> m.mrr,
                                                 n_classes |-> n_classes,
                                                 n_features |-> Len(feature_cols),
                                                 train_samples |-> s.train_samples,
                                                 val_samples |-> s.val_samples,
                                                 test_samples |-> s.test_samples])]
    /\ UNCHANGED <<corpus, engineered, batch, served, rank_in, ranked, mrr, le>>
    /\ UNCHANGED <<eval_set, topk_acc, split>>
    /\ UNCHANGED service_vars

InitPipeline ==
    /\ corpus \in PipelineCorpora
    /\ engineered = None
    /\ batch = NoBatch
    /\ served = None
    /\ rank_in = NoRankIn
    /\ ranked = None
    /\ mrr = None
    /\ le = NoEncoder
    /\ TrainIdle
    /\ ServiceLoaded(CorpusA)

NextPipeline ==
    \/ PrepareMain
    \/ TrainMain

SpecPipeline == InitPipeline /\ [][NextPipeline]_vars

\* C22: the feature list used for training and persisted for serving never
\* holds the guard identity: neither guard_fingerprint nor guard_label is in
\* X or in models/feature_columns.pkl, and guard_label is the target only.
C22_GuardIdentityNeverAFeature ==
    /\ "guard_fingerprint" \notin Range(pipeline.X_columns)
    /\ "guard_label" \notin Range(pipeline.X_columns)
    /\ pipeline.X_columns # <<>> => pipeline.y_column = "guard_label"
    /\ pipeline.files.feature_columns_pkl # None =>
          /\ "guard_fingerprint" \notin Range(pipeline.files.feature_columns_pkl[1])
          /\ "guard_label" \notin Range(pipeline.files.feature_columns_pkl[1])
          /\ pipeline.files.feature_columns_pkl[1] = pipeline.X_columns

C22_Witness ==
    /\ pipeline.train = "done"
    /\ pipeline.files.feature_columns_pkl # None
    /\ Len(pipeline.files.feature_columns_pkl[1]) = 31
    /\ pipeline.y_column = "guard_label"

\* C23: when training fails (fewer than two classes, empty input, an error
\* while fitting or evaluating), nothing of the bundle has been written:
\* no model file, no feature list, no encoder tables, no metrics.
C23_FailedTrainingWritesNothing ==
    (\/ pipeline.prepare = "failed"
     \/ pipeline.train \in {"failed_statistics", "failed_split", "failed_fit",
                            "failed_evaluate_topk"})
        => /\ pipeline.files.model_json = None
           /\ pipeline.files.feature_columns_pkl = None
           /\ pipeline.files.encoders_pkl = None
           /\ pipeline.files.evaluation_metrics_json = None

\* ------------------------------------------ scoring with missing values

\* Requests whose setup_time is NaN (the JSON parser and the float field
\* both accept it), next to the same requests with a setup time.
MissingRequests ==
    {[r EXCEPT !.setup_time = t] :
        r \in {q \in Requests : q.middle_fingerprint = ""}, t \in {20, NaN}}

\* The probability row with all the weight on the first of n classes.
FirstClassRow(n) == [i \in 1..n |-> IF i = 1 THEN MaxProb ELSE 0]

\* One request, with or without its setup time, answered by the service.
ServeMissing ==
    /\ ~resp.called
    /\ \E request \in MissingRequests :
       \E order \in ArgsortResults(FirstClassRow(NClasses)) :
          resp' = predict_guard_nodes(request, FirstClassRow(NClasses), order)
    /\ UNCHANGED <<disk, startup, model, encoders, feature_columns,
                   guard_fingerprints, guard_meta>>
    /\ UNCHANGED offline_vars

\* Rows of the engineered frame with the setup time, the byte count, both
\* or neither left empty.
MissingSamples(df) ==
    {[df[i] EXCEPT !.circuit_setup_duration = IF empty[1] THEN NaN ELSE @,
                   !.total_bytes = IF empty[2] THEN NaN ELSE @] :
        i \in DOMAIN df, empty \in BOOLEAN \X BOOLEAN}

\* One call of predict_top_k_guards on such a row.
BatchMissing ==
    /\ ~batch.called
    /\ \E r \in MissingSamples(engineered[1].df) :
       \E order \in ArgsortResults(FirstClassRow(TrainedModel(corpus).n_classes)) :
          batch' = predict_top_k_guards(
                       <<r>>, TrainedModel(corpus), engineered[1].encoders,
                       TrainFeatureCols, 5,
                       <<FirstClassRow(TrainedModel(corpus).n_classes)>>,
                       <<order>>)
    /\ UNCHANGED <<corpus, engineered, served, rank_in, ranked, mrr, le>>
    /\ UNCHANGED service_vars
    /\ UNCHANGED train_vars

InitMissing ==
    /\ corpus = CorpusA
    /\ \E guard_top_country \in TopCountryChoices(CorpusA) :
          engineered = Some(prepare_engineer_features(CorpusA, guard_top_country))
    /\ batch = NoBatch
    /\ served = None
    /\ rank_in = NoRankIn
    /\ ranked = None
    /\ mrr = None
    /\ le = NoEncoder
    /\ ServiceLoaded(CorpusA)
    /\ TrainIdle

NextMissing ==
    \/ ServeMissing
    \/ BatchMissing

SpecMissing == InitMissing /\ [][NextMissing]_vars

\* The frame X holds no NaN.
NoNullCell(X) == \A i \in DOMAIN X : ~IsNull(X[i][1], X[i][2])

\* C24: on the serving endpoint and in predict_top_k_guards a missing value
\* of the feature vector is 0 by the time predict_proba is called, and the
\* request does not fail for it.
C24_MissingValuesFilledWithZero ==
    /\ resp.ran_model => NoNullCell(resp.X)
    /\ (resp.called /\ resp.request.setup_time = NaN) => resp.status = 200
    /\ batch.called =>
          /\ ~batch.raised
          /\ NoNullCell(batch.X[1])
          /\ batch.circuit_data[1].circuit_setup_duration = NaN =>
                XValue(batch.X[1], "bw_guard_x_setup") = 0

\* ----------------------------------------------- explainability inputs

\* The positions of the feature list that a booster's importance table may
\* hold a split count for, and the split counts.
ScoredPositions == <<3, 7, 21, 24, 25, 30>>

ImportanceLevels == {0, 4, 7, 10}

\* Importance tables of boosters, by feature position; the table with no
\* entry at all (every count 0) is among them.
ImportanceTables ==
    {[i \in DOMAIN TrainFeatureCols |->
        IF \E j \in DOMAIN ScoredPositions : ScoredPositions[j] = i
        THEN levels[CHOOSE j \in DOMAIN ScoredPositions : ScoredPositions[j] = i]
        ELSE 0] :
        levels \in [DOMAIN ScoredPositions -> ImportanceLevels]}

\* The service loaded with the bundle of CorpusA whose booster has one of
\* the importance tables.
InitExplain ==
    /\ \E score \in ImportanceTables :
          /\ model = Some([TrainedModel(CorpusA) EXCEPT !.score = score])
          /\ disk = [model_file |-> Some([TrainedModel(CorpusA) EXCEPT !.score = score]),
                     encoders_file |-> Some(FitEncoders(CorpusA)),
                     feature_cols_file |-> Some(TrainFeatureCols),
                     metadata_csv |-> Some(MetaRows(CorpusA))]
    /\ startup = "done"
    /\ encoders = Some(FitEncoders(CorpusA))
    /\ feature_columns = Some(TrainFeatureCols)
    /\ guard_fingerprints = Some(FitEncoders(CorpusA)["guard_fingerprint"])
    /\ guard_meta = LoadGuardMeta(MetaRows(CorpusA))
    /\ resp = NoResponse
    /\ OfflineIdle

\* One request answered, explainability block included.
Explain ==
    /\ ~resp.called
    /\ \E request \in {r \in Requests : r.middle_fingerprint = ""} :
       \E order \in ArgsortResults(FirstClassRow(NClasses)) :
          resp' = predict_guard_nodes(request, FirstClassRow(NClasses), order)
    /\ UNCHANGED <<disk, startup, model, encoders, feature_columns,
                   guard_fingerprints, guard_meta>>
    /\ UNCHANGED offline_vars

NextExplain == Explain

SpecExplain == InitExplain /\ [][NextExplain]_vars

\* The split count the loaded booster holds for a feature.
RawImportance(feature) ==
    model[1].score[CHOOSE i \in DOMAIN feature_columns[1] :
                      feature_columns[1][i] = feature]

\* The largest split count among the listed features.
LargestListed(tf) ==
    CHOOSE m \in {RawImportance(tf[i].feature) : i \in DOMAIN tf} :
        \A i \in DOMAIN tf : RawImportance(tf[i].feature) <= m

\* C25: get_feature_importance returns at most top_n = 5 entries, by
\* importance descending, each with its importance divided by the largest
\* importance among them and the bucket "high" above 0.7, "medium" above 0.4
\* up to 0.7, "low" otherwise.
C25_TopFeaturesNormalizedAndBucketed ==
    resp.status = 200 =>
        LET tf == resp.top_features
        IN /\ Len(tf) <= 5
           /\ \A i, j \in DOMAIN tf :
                 i < j => RawImportance(tf[i].feature) >= RawImportance(tf[j].feature)
           /\ \A i \in DOMAIN tf :
                 /\ tf[i].importance =
                       Frac(RawImportance(tf[i].feature), LargestListed(tf))
                 /\ tf[i].impact =
                       IF 10 * tf[i].importance[1] > 7 * tf[i].importance[2]
                       THEN "high"
                       ELSE IF 10 * tf[i].importance[1] > 4 * tf[i].importance[2]
                       THEN "medium"
                       ELSE "low"

C25_Witness ==
    /\ resp.status = 200
    /\ Len(resp.top_features) = 5
    /\ Cardinality({i \in DOMAIN model[1].score : model[1].score[i] > 0}) = 6
    /\ \E i, j \in DOMAIN resp.top_features :
          /\ resp.top_features[i].importance = <<7, 10>>
          /\ resp.top_features[i].impact = "medium"
          /\ resp.top_features[j].importance = <<2, 5>>
          /\ resp.top_features[j].impact = "low"

\* C30: a non-empty list of get_feature_importance starts with an entry of
\* normalized importance exactly 1 and impact "high", every normalized
\* importance is above 0 and at most 1, and a feature whose raw importance
\* is 0 is never listed.
C30_FirstIsOneAllInUnitInterval ==
    (resp.status = 200 /\ resp.top_features # <<>>) =>
        LET tf == resp.top_features
        IN /\ tf[1].importance = <<1, 1>>
           /\ tf[1].impact = "high"
           /\ \A i \in DOMAIN tf :
                 /\ tf[i].importance[1] > 0
                 /\ tf[i].importance[1] <= tf[i].importance[2]
                 /\ RawImportance(tf[i].feature) # 0

C30_Witness ==
    /\ resp.status = 200
    /\ Len(resp.top_features) = 2
    /\ resp.top_features[1].importance = <<1, 1>>
    /\ resp.top_features[2].importance = <<4, 7>>
    /\ \E i \in DOMAIN ScoredPositions : model[1].score[ScoredPositions[i]] = 0

\* C26: relay metadata is optional.  load_model completes whether the
\* metadata file is missing, unreadable or without an entry for a guard
\* (only a missing model, encoder or feature-list file stops it), and a
\* prediction for a guard without an entry carries the placeholders: a
\* synthesized nickname, "Unknown" address and country.
C26_MetadataOptional ==
    /\ startup = "raised" =>
          \/ disk.model_file = None
          \/ disk.encoders_file = None
          \/ disk.feature_cols_file = None
    /\ resp.status = 200 =>
          \A r \in DOMAIN resp.predictions :
              resp.predictions[r].guard_fingerprint \notin DOMAIN guard_meta =>
                  /\ resp.predictions[r].guard_nickname[1] = "GuardNode"
                  /\ resp.predictions[r].guard_address = <<"Unknown">>
                  /\ resp.predictions[r].guard_country = <<"Unknown">>

C26_Witness ==
    /\ disk.metadata_csv = None
    /\ startup = "done"
    /\ guard_meta = <<>>
    /\ resp.status = 200
    /\ resp.predictions # <<>>
    /\ \A r \in DOMAIN resp.predictions :
          /\ resp.predictions[r].guard_nickname[1] = "GuardNode"
          /\ resp.predictions[r].guard_address = <<"Unknown">>

\* C27: each entry of a prediction list names the identity the label encoder
\* holds at the entry's class index and carries the model's probability for
\* that index as it is, whatever the row sums to; no class index is listed
\* twice.
C27_EntryIsClassAndItsProbability ==
    (ranked # None /\ ~ranked[1].raised) =>
        LET predictions == ranked[1].predictions
            classes == encoders[1]["guard_fingerprint"]
        IN /\ \E order \in ArgsortResults(rank_in.row) :
                 LET idx == TopKIndices(order, rank_in.k)
                 IN /\ Len(idx) = Len(predictions)
                    /\ \A r \in DOMAIN predictions :
                          /\ predictions[r].guard_fingerprint = classes[idx[r] + 1]
                          /\ predictions[r].confidence = rank_in.row[idx[r] + 1]
           /\ \A r, q \in DOMAIN predictions :
                 r # q => predictions[r].guard_fingerprint
                              # predictions[q].guard_fingerprint

C27_Witness ==
    /\ ranked # None
    /\ rank_in.row = <<2, 0, 2>>
    /\ Len(ranked[1].predictions) = 3
    /\ ranked[1].predictions[1].confidence = 2
    /\ ranked[1].predictions[2].confidence = 2
    /\ ranked[1].predictions[3].guard_fingerprint = "G2"
    /\ ranked[1].predictions[3].confidence = 0

\* An exception is raised while the current globals serve the request:
\* in engineer_features, in predict_proba, or in get_top_k_predictions
\* (k = 10 reaches every class index of the models here).
RaisesWhileServing(request) ==
    LET fe == engineer_features(request)
    IN \/ fe.raised
       \/ predict_proba(model[1], fe.X, <<>>).raised
       \/ guard_fingerprints = None
       \/ model[1].n_classes > Len(guard_fingerprints[1])

\* C28: the endpoint answers 503 only when the model global is unset; past
\* that check an exception in feature engineering, scoring, top-K extraction
\* or explainability is answered 500 'Prediction error', with no prediction
\* and no explainability block in the response.
C28_ExceptionsAnswered500 ==
    resp.called =>
        /\ resp.status \in {200, 500, 503}
        /\ resp.status = 503 <=> resp.at_startup = "pending"
        /\ resp.status = 503 => (~resp.ran_features /\ ~resp.ran_model)
        /\ resp.status = 500 =>
              /\ resp.detail = "Prediction error"
              /\ resp.predictions = <<>>
              /\ resp.top_features = <<>>
              /\ resp.total_features = 0
        /\ resp.at_startup # "pending" =>
              (resp.status = 500 <=> RaisesWhileServing(resp.request))

C28_Witness ==
    /\ resp.status = 500
    /\ resp.ran_model
    /\ resp.probabilities # <<>>
    /\ resp.at_startup = "done"
    /\ resp.predictions = <<>>


\* ------------------------------------- serving: the encoder registry

\* A registry that holds the target encoder and only the encoders of the
\* columns in keep, as an encoders.pkl written by another version of the
\* pipeline does.
PartialRegistry(registry, keep) ==
    [col \in keep \cup {"guard_fingerprint"} |-> registry[col]]

\* The files the backend may find: the model and the feature list present or
\* not, the registry absent, complete or lacking encoders.
RegistryDisks ==
    [model_file : {None, Some(TrainedModel(CorpusB))},
     encoders_file : {None} \cup
         {Some(PartialRegistry(FitEncoders(c), keep)) :
             c \in Corpora, keep \in SUBSET Range(EncodedCols)},
     feature_cols_file : {None, Some(TrainFeatureCols)},
     metadata_csv : {None}]

InitRegistry ==
    /\ disk \in RegistryDisks
    /\ startup = "pending"
    /\ model = None
    /\ encoders = None
    /\ feature_columns = None
    /\ guard_fingerprints = None
    /\ guard_meta = <<>>
    /\ resp = NoResponse
    /\ OfflineIdle

\* predict_guard_nodes calling engineer_features: only past the startup
\* handler, which always leaves the model global assigned.
ServeTransform ==
    /\ startup # "pending"
    /\ model # None
    /\ ServeFeatures

NextRegistry ==
    \/ LoadModel
    \/ ServeTransform

SpecRegistry == InitRegistry /\ [][NextRegistry]_vars

\* The lookup encoders[col].transform([v]) fails: the registry is unset, has
\* no encoder for col, or the encoder never saw v.
LookupFails(col, v) ==
    IF encoders = None THEN TRUE
    ELSE IF col \notin DOMAIN encoders[1] THEN TRUE
    ELSE v \notin Range(encoders[1][col])

\* C29: in the serving transform every encoded field whose encoder lookup
\* fails is -1, whether the registry is unset, lacks the field's encoder or
\* the value was never seen, and is the fitted index otherwise; a failed
\* lookup raises nothing: the transform raises only when the selection of
\* the feature columns does, and the vector it returns holds the same -1 for
\* a missing encoder as for an unseen value.
C29_AnyLookupFailureIsSentinel ==
    served # None =>
        LET s == served[1]
        IN /\ \A c \in DOMAIN EncodedCols :
                 LET col == EncodedCols[c]
                     v == EncodedInput(s.request, col)
                     e == s.frame[EncodedName(col)]
                 IN IF LookupFails(col, v) THEN e = -1
                    ELSE /\ e \in 0 .. (Len(encoders[1][col]) - 1)
                         /\ encoders[1][col][e + 1] = v
           /\ s.result.raised <=>
                 \/ feature_columns = None
                 \/ \E i \in DOMAIN feature_columns[1] :
                       feature_columns[1][i] \notin Range(ServingColumns)
           /\ ~s.result.raised =>
                 \A c \in DOMAIN EncodedCols :
                     LET name == EncodedName(EncodedCols[c])
                     IN name \in Range(Names(s.result.X)) =>
                           XValue(s.result.X, name) = s.frame[name]

\* A vector was returned in which one field is -1 because the registry has
\* no encoder for it and another is -1 because its value was never seen.
C29_Witness ==
    /\ served # None
    /\ encoders # None
    /\ ~served[1].result.raised
    /\ \E c1, c2 \in DOMAIN EncodedCols :
          LET col1 == EncodedCols[c1]
              col2 == EncodedCols[c2]
          IN /\ col1 \notin DOMAIN encoders[1]
             /\ col2 \in DOMAIN encoders[1]
             /\ EncodedInput(served[1].request, col2)
                    \notin Range(encoders[1][col2])
             /\ XValue(served[1].result.X, EncodedName(col1)) = -1
             /\ XValue(served[1].result.X, EncodedName(col2)) = -1

====
